---- MODULE Spec2Model ----
(***************************************************************************)
(* Model of the Citrix Monitor OData client (client.py): the process-wide  *)
(* client singleton, its lazily built HTTP session, the cached cloud       *)
(* bearer token, the 429 retry loop and the paginated query operations     *)
(* (Spec); of the tool dispatch of server.py and tools/*.py, where every   *)
(* tool runs its client method's requests on that client and is answered   *)
(* with the serialized result or error (DispatchSpec); of two callers      *)
(* running the token refresh concurrently, statement part by statement     *)
(* part (RaceSpec); and of one query over a finite chain of pages, with    *)
(* the client's steps taken fairly (ChainSpec).                            *)
(***************************************************************************)
EXTENDS Integers, Sequences, FiniteSets, TLC

\* ------------------------------------------------------------------ bounds
MaxRequests == 4     \* data requests the upstream answers in one behaviour
MaxTime == 3400      \* the clock is not advanced past this instant by idling
NumTokens == 3       \* distinct access tokens the token endpoint rotates through
ChainLength == 2     \* pages in the data service's finite chain of next-page links
MaxToolRequests == 3 \* data requests the upstream answers to the server's tool calls

\* ------------------------------------------------------- program constants
MaxRetries == 3           \* max_retries default
BackoffStep == 5          \* wait_time = 5 * (attempt + 1)
ExpiryMargin == 300       \* refresh 5 minutes early
DefaultExpiresIn == 3600  \* token_data.get("expires_in", 3600)

\* ---------------------------------------------------------- Python values
\* Optional values are sequences of length 0 (None / absent) or 1.
None == <<>>
Some(x) == <<x>>
IsNone(o) == o = <<>>

\* ------------------------------------------------------------- environment
\* Presence of each credential variable; the deployment mode.
Envs ==
  {[deployment |-> "cloud", customer_id |-> a, client_id |-> b, client_secret |-> c,
    username |-> TRUE, password |-> TRUE] : a, b, c \in BOOLEAN}
  \cup
  {[deployment |-> "onprem", customer_id |-> TRUE, client_id |-> TRUE,
    client_secret |-> TRUE, username |-> u, password |-> p] : u, p \in BOOLEAN}

\* ------------------------------------------------------------ the upstream
\* What the token endpoint answers: a status; what its body decodes to (a JSON
\* object with access_token: "token", a JSON object without it: "object", no
\* JSON: "text"); and, beside a token, expires_in (absent, or no longer than
\* the safety margin). A success carries a token; a redirection-class answer
\* that requests hands back as final (300) carries any of the three bodies;
\* the other answers are a rejection (401) and a transport failure.
TokenResponses ==
  {[kind |-> "response", status |-> 200, body |-> "token", expires_in |-> e] :
     e \in {None, Some(300)}}
  \cup {[kind |-> "response", status |-> 300, body |-> b, expires_in |-> None] :
          b \in {"token", "object", "text"}}
  \cup {[kind |-> "response", status |-> 401, body |-> "text", expires_in |-> None],
        [kind |-> "transport", status |-> 0, body |-> "text", expires_in |-> None]}

\* URLs are tuples; the empty tuple is the empty string.
BaseUrl == "base"
EntityUrl(entity) == <<BaseUrl, entity>>
KeyUrl(entity, key) == <<BaseUrl, entity, key>>
CountUrl(entity) == <<BaseUrl, entity, "/$count">>
\* The link to the page after page p, and the records of page p (pages are
\* numbered from 0): distinct per page, so that order and target are visible.
Link(p) == <<"link", p + 1>>
Records(p) == <<<<"rec", p, 1>>, <<"rec", p, 2>>>>
\* Decoded JSON bodies the data service may send as page p: "value" and
\* "@odata.nextLink", each possibly missing; a link may be the empty string.
LastBodies(p) == {[value |-> v, next |-> n] :
                    v \in {None, Some(Records(p))}, n \in {None, Some(<<>>)}}
LinkBodies(p) == {[value |-> v, next |-> Some(Link(p))] :
                    v \in {None, Some(Records(p))}}
PlainBody == [value |-> None, next |-> None]
\* statuses of final data responses: success, a redirection-class answer
\* delivered as final, not found, rate limited, server error
Statuses == {200, 300, 404, 429, 500}
\* the text of a /$count answer: a number, or something else
CountTexts == {"42", "n/a"}

VARIABLES
  env,           \* os.environ: deployment mode and which credentials are set
  client,        \* module global _client: 0 (None) or the instance's identity
  clientsMade,   \* CitrixMonitorClient() constructions so far
  session,       \* self._session: 0 (None) or the Session object's identity
  sessionsMade,  \* requests.Session() constructions so far
  headers,       \* self._session.headers
  ntlm,          \* self._session.auth is installed
  token,         \* self._token: 0 (None) or the token's identity
  token_expiry,  \* self._token_expiry: None or Some(instant)
  issued,        \* the token the token endpoint issued last (0: none yet)
  granted,       \* the last successful token answer: when, and its expires_in
  now,           \* datetime.now(), in seconds
  pc,            \* where the running operation stands
  op,            \* locals of the running query / query_single call
  resp,          \* the response _request_with_retry is looking at
  outcome,       \* what the finished operation returned or raised
  rejected,      \* the previous operation ended on a rejected token exchange
  requests,      \* data requests sent so far, over all operations
  log,           \* data requests the running operation has sent, with answers
  slept,         \* time.sleep() calls of the running _request_with_retry call
  posts,         \* token-endpoint POSTs made during the current attempt
  call,          \* the call_tool invocation the server is handling
  threads        \* the locals of operations running concurrently on the client

vars == <<env, client, clientsMade, session, sessionsMade, headers, ntlm, token,
          token_expiry, issued, granted, now, pc, op, resp, outcome, rejected, requests, log,
          slept, posts, call, threads>>

NoHeaders == [Authorization |-> None, CustomerId |-> FALSE, Accept |-> FALSE]
NoParams == [filter |-> None, select |-> None, orderby |-> None, top |-> None,
             skip |-> None, expand |-> None, count |-> None, apply |-> None]
NoOp == [kind |-> "none", method |-> "", url |-> None, params |-> NoParams,
         attempt |-> 0, page |-> 0, results |-> <<>>]
NoResp == [kind |-> "none", status |-> 0, body |-> PlainBody, text |-> ""]
NoGrant == [at |-> 0, expires_in |-> None]
NoOutcome == [kind |-> "none", err |-> "none", list |-> <<>>, body |-> None,
              number |-> None, status |-> 0]

\* ------------------------------------------------------------ pure helpers
\* requests.Response.raise_for_status raises for 4xx and 5xx only.
RaiseForStatus(status) == status >= 400 /\ status < 600

CwsAuth(tok) == Some(<<"CWSAuth bearer=", tok>>)

RECURSIVE Join(_)
\* ",".join(list)
Join(list) ==
  IF list = <<>> THEN <<>>
  ELSE IF Len(list) = 1 THEN list
  ELSE <<Head(list), ",">> \o Join(Tail(list))

\* Python truthiness of an optional string / list / integer
TruthySeq(o) == ~IsNone(o) /\ o[1] # <<>>
TruthyStr(o) == ~IsNone(o) /\ o[1] # ""
TruthyInt(o) == ~IsNone(o) /\ o[1] # 0

\* query(): the params dict built from the call's options
QueryParams(q) ==
  [filter  |-> IF TruthyStr(q.filter) THEN q.filter ELSE None,
   select  |-> IF TruthySeq(q.select) THEN Some(Join(q.select[1])) ELSE None,
   orderby |-> IF TruthyStr(q.orderby) THEN q.orderby ELSE None,
   top     |-> IF TruthyInt(q.top) THEN q.top ELSE None,
   skip    |-> IF TruthyInt(q.skip) THEN q.skip ELSE None,
   expand  |-> IF TruthySeq(q.expand) THEN Some(Join(q.expand[1])) ELSE None,
   count   |-> IF q.count THEN Some("true") ELSE None,
   apply   |-> None]

\* query_single(): params = {"$expand": ...} or None
SingleParams(expand) ==
  [NoParams EXCEPT !.expand = IF TruthySeq(expand) THEN Some(Join(expand[1])) ELSE None]

\* the options query() is started with
QuerySpecs ==
  {[filter |-> f, select |-> None, orderby |-> None, top |-> t, skip |-> None,
    expand |-> None, count |-> FALSE] : f \in {Some("Name eq 'x'")}, t \in {Some(5)}}

\* aggregate(): params = {"$apply": apply}
AggregateParams(apply) == [NoParams EXCEPT !.apply = Some(apply)]

\* get_count(): params = {"$filter": filter} if filter else None
CountParams(filter) ==
  [NoParams EXCEPT !.filter = IF TruthyStr(filter) THEN filter ELSE None]

\* the value of a decimal digit
DigitValue ==
  [d \in {"0", "1", "2", "3", "4", "5", "6", "7", "8", "9"} |->
     CASE d = "0" -> 0 [] d = "1" -> 1 [] d = "2" -> 2 [] d = "3" -> 3 [] d = "4" -> 4
       [] d = "5" -> 5 [] d = "6" -> 6 [] d = "7" -> 7 [] d = "8" -> 8 [] d = "9" -> 9]

\* int(text) accepts text: here, a non-empty run of decimal digits
IsInt(text) ==
  Len(text) > 0 /\ \A i \in 1..Len(text) : SubSeq(text, i, i) \in DOMAIN DigitValue

RECURSIVE IntOf(_)
\* int(text) for such a text
IntOf(text) ==
  IF Len(text) = 0 THEN 0
  ELSE 10 * IntOf(SubSeq(text, 1, Len(text) - 1)) + DigitValue[SubSeq(text, Len(text), Len(text))]

\* ------------------------------------------------------------ the client
\* The fields of the client and of its session that one call chain reads and
\* writes, with the call's result: err is the exception raised ("none" when it
\* returned), status the status of the token answer it was raised on (0: on
\* none), ret the token returned, posts the token-endpoint POSTs made.
Frame ==
  [session |-> session, sessionsMade |-> sessionsMade, headers |-> headers,
   ntlm |-> ntlm, token |-> token, token_expiry |-> token_expiry,
   issued |-> issued, granted |-> granted, posts |-> 0, err |-> "none", status |-> 0,
   ret |-> 0]

Cloud == env.deployment = "cloud"

\* a cache check that still takes the token at the instant of its expiry
TokenCachedLate(f) ==
  f.token # 0 /\ ~IsNone(f.token_expiry) /\ now <= f.token_expiry[1]

\* _get_cloud_token, line 65: a cached token that has not reached its expiry
TokenCached(f) ==
  f.token # 0 /\ ~IsNone(f.token_expiry) /\ now < f.token_expiry[1]

\* _get_cloud_token, line 73
CloudCredentials == env.customer_id /\ env.client_id /\ env.client_secret

\* _get_cloud_token, line 98
ExpiresIn(r) == IF IsNone(r.expires_in) THEN DefaultExpiresIn ELSE r.expires_in[1]

\* _get_cloud_token, line 99
TokenExpiry(r) == Some(now + (ExpiresIn(r) - ExpiryMargin))

\* the access_token of the endpoint's next successful answer
NextToken(n) == (n % NumTokens) + 1

\* _get_cloud_token, lines 83-101: the POST and what is done with its answer
PostToken(f, r) ==
  LET g == [f EXCEPT !.posts = @ + 1] IN
  IF r.kind = "transport" THEN [g EXCEPT !.err = "TransportError"]
  ELSE IF RaiseForStatus(r.status)
  THEN [g EXCEPT !.err = "AuthenticationError", !.status = r.status]
  ELSE IF r.body = "text" THEN [g EXCEPT !.err = "JSONDecodeError", !.status = r.status]
  ELSE IF r.body = "object" THEN [g EXCEPT !.err = "KeyError", !.status = r.status]
  ELSE [g EXCEPT !.token = NextToken(g.issued), !.issued = NextToken(g.issued),
                 !.token_expiry = TokenExpiry(r), !.ret = NextToken(g.issued),
                 !.granted = [at |-> now, expires_in |-> r.expires_in]]

\* _get_cloud_token: every way the call can end from f
GetCloudToken(f) ==
  IF TokenCached(f) THEN {[f EXCEPT !.ret = f.token]}
  ELSE IF ~CloudCredentials THEN {[f EXCEPT !.err = "ConfigurationError"]}
  ELSE {PostToken(f, r) : r \in TokenResponses}

\* session property, lines 110-118: the cloud branch, after the token call t
CloudSession(t) ==
  IF t.err # "none" THEN t
  ELSE [t EXCEPT !.headers = [Authorization |-> CwsAuth(t.ret),
                              CustomerId |-> env.customer_id, Accept |-> TRUE]]

\* session property, lines 119-131: the on-premises branch
OnPremSession(f) ==
  IF ~(env.username /\ env.password) THEN [f EXCEPT !.err = "ConfigurationError"]
  ELSE [f EXCEPT !.ntlm = TRUE, !.headers = [@ EXCEPT !.Accept = TRUE]]

\* session property, lines 106-108: a new requests.Session()
NewSession(f) ==
  [f EXCEPT !.session = f.sessionsMade + 1, !.sessionsMade = @ + 1,
            !.headers = NoHeaders, !.ntlm = FALSE]

\* a session property that builds a Session on every access
SessionRebuilt(f) ==
  IF Cloud THEN {CloudSession(t) : t \in GetCloudToken(NewSession(f))}
  ELSE {OnPremSession(NewSession(f))}

\* session property: every way the access can end from f
Session(f) ==
  IF f.session # 0 THEN {f}
  ELSE IF Cloud THEN {CloudSession(t) : t \in GetCloudToken(NewSession(f))}
  ELSE {OnPremSession(NewSession(f))}

\* _refresh_cloud_session, line 139, after the token call t and the session s
SetAuthorization(t, s) ==
  IF s.err # "none" THEN s
  ELSE [s EXCEPT !.headers = [@ EXCEPT !.Authorization = CwsAuth(t.ret)]]

\* _refresh_cloud_session
RefreshCloudSession(f) ==
  IF ~Cloud THEN {f}
  ELSE UNION {IF t.err # "none" THEN {t}
              ELSE {SetAuthorization(t, s) : s \in Session(t)} : t \in GetCloudToken(f)}

\* the fields of a frame written back to the client
Store(f) ==
  /\ session' = f.session
  /\ sessionsMade' = f.sessionsMade
  /\ headers' = f.headers
  /\ ntlm' = f.ntlm
  /\ token' = f.token
  /\ token_expiry' = f.token_expiry
  /\ issued' = f.issued
  /\ granted' = f.granted

Raised(e) == [NoOutcome EXCEPT !.kind = "error", !.err = e]

\* no call_tool invocation is being handled; no concurrent operation runs
NoCall ==
  [stage |-> "none", name |-> "", arguments |-> <<>>, handler |-> "", raised |-> None,
   method |-> "none", kind |-> "none", query |-> None, result |-> None,
   payload |-> <<>>, lookup |-> "none", id |-> None, queries |-> <<>>]

\* ------------------------------------------------------------ operations
Init ==
  /\ env \in Envs
  /\ client = 0 /\ clientsMade = 0
  /\ session = 0 /\ sessionsMade = 0 /\ headers = NoHeaders /\ ntlm = FALSE
  /\ token = 0 /\ token_expiry = None /\ issued = 0 /\ granted = NoGrant
  /\ now = 0
  /\ pc = "idle" /\ op = NoOp /\ resp = NoResp /\ outcome = NoOutcome
  /\ rejected = FALSE /\ requests = 0 /\ log = <<>> /\ slept = <<>> /\ posts = 0
  /\ call = NoCall /\ threads = <<>>

\* get_client(): the module-level instance, built on first use with
\* __init__'s empty session and token fields
GetClient ==
  IF client = 0
  THEN /\ client' = clientsMade + 1
       /\ clientsMade' = clientsMade + 1
       /\ session' = 0 /\ headers' = NoHeaders /\ ntlm' = FALSE
       /\ token' = 0 /\ token_expiry' = None
  ELSE UNCHANGED <<client, clientsMade, session, headers, ntlm, token, token_expiry>>

\* an operation of the client is entered: its locals are set up
Enter(o) ==
  /\ pc = "idle"
  /\ op' = o
  /\ pc' = "refresh"
  /\ outcome' = NoOutcome /\ resp' = NoResp
  /\ log' = <<>> /\ slept' = <<>> /\ posts' = 0
  /\ UNCHANGED <<threads, env, sessionsMade, issued, granted, now, rejected, requests>>

\* a caller starts an operation on get_client()
Begin(o) ==
  /\ GetClient
  /\ Enter(o)
  /\ UNCHANGED call

\* query(entity, ...), lines 188-205
StartQuery ==
  \E q \in QuerySpecs :
    Begin([NoOp EXCEPT !.kind = "query", !.method = "GET",
                       !.url = Some(EntityUrl("Machines")), !.params = QueryParams(q)])

\* query_single(entity, key, expand), lines 233-238
StartQuerySingle ==
  \E x \in {Some(<<"Sessions", "Catalog">>)} :
    Begin([NoOp EXCEPT !.kind = "query_single", !.method = "GET",
                       !.url = Some(KeyUrl("Machines", "(7)")),
                       !.params = SingleParams(x)])

\* an aggregate that sends its expression in the body of a POST
StartAggregatePost ==
  \E a \in {"aggregate(SessionCount with sum as Total)"} :
    Begin([NoOp EXCEPT !.kind = "aggregate", !.method = "POST",
                       !.url = Some(EntityUrl("Sessions")),
                       !.params = AggregateParams(a)])

\* aggregate(entity, apply), lines 255-259
StartAggregate ==
  \E a \in {"aggregate(SessionCount with sum as Total)"} :
    Begin([NoOp EXCEPT !.kind = "aggregate", !.method = "GET",
                       !.url = Some(EntityUrl("Sessions")),
                       !.params = AggregateParams(a)])

\* get_count(entity, filter), lines 272-276
StartCount ==
  \E f \in {None, Some(""), Some("EndDate eq null")} :
    Begin([NoOp EXCEPT !.kind = "get_count", !.method = "GET",
                       !.url = Some(CountUrl("Sessions")),
                       !.params = CountParams(f)])

\* the operation ends: it returns or raises out
Finish(o) ==
  /\ pc' = "done"
  /\ outcome' = o

\* _request_with_retry, lines 145-148: the refresh hook before an attempt
Refresh ==
  /\ pc = "refresh"
  /\ \E f \in RefreshCloudSession(Frame) :
       /\ Store(f)
       /\ posts' = f.posts
       /\ IF f.err = "none"
          THEN pc' = "send" /\ UNCHANGED outcome
          ELSE Finish([Raised(f.err) EXCEPT !.status = f.status])
  /\ UNCHANGED <<call, threads, env, client, clientsMade, now, op, resp, rejected, requests, log, slept>>

\* what the data service may answer to the running operation's next request
DataResponses ==
  {[kind |-> "transport", status |-> 0, body |-> PlainBody, text |-> ""]}
  \cup {[kind |-> "response", status |-> st, body |-> PlainBody, text |-> ""] :
          st \in Statuses}
  \cup (IF op.kind = "get_count"
        THEN {[kind |-> "response", status |-> 200, body |-> PlainBody, text |-> t] :
                t \in CountTexts}
        ELSE {[kind |-> "response", status |-> 200, body |-> b, text |-> ""] :
                b \in LastBodies(op.page) \cup LinkBodies(op.page)})

\* the request as it goes on the wire, with its answer
Sent(f, r) ==
  [method |-> op.method, url |-> op.url[1], params |-> op.params, session |-> f.session,
   headers |-> f.headers, ntlm |-> f.ntlm, page |-> op.page, attempt |-> op.attempt,
   status |-> r.status, body |-> r.body]

\* _request_with_retry, line 150: self.session.request(method, url, **kwargs),
\* answered by one of the given responses
Transmit(responses) ==
  /\ pc = "send"
  /\ \E f \in Session(Frame) :
       /\ Store(f)
       /\ posts' = posts + f.posts
       /\ IF f.err # "none"
          THEN Finish([Raised(f.err) EXCEPT !.status = f.status])
               /\ UNCHANGED <<resp, log, requests>>
          ELSE \E r \in responses :
                 /\ log' = Append(log, Sent(f, r))
                 /\ requests' = requests + 1
                 /\ IF r.kind = "transport"
                    THEN Finish(Raised("TransportError")) /\ UNCHANGED resp
                    ELSE pc' = "response" /\ resp' = r /\ UNCHANGED outcome
  /\ UNCHANGED <<call, threads, env, client, clientsMade, now, op, rejected, slept>>

\* the request is sent, while the upstream still answers
Send ==
  /\ requests < MaxRequests
  /\ Transmit(DataResponses)

\* a retry condition that also takes server errors for rate limiting
RateLimitedOrServerError(r) == r.status = 429 \/ r.status >= 500

\* _request_with_retry, line 152
RateLimited(r) == r.status = 429

\* a backoff that does not grow with the attempt
WaitTimeFlat(attempt) == BackoffStep

\* _request_with_retry, line 154
WaitTime(attempt) == BackoffStep * (attempt + 1)

\* a retry loop that gives up on its last 429 without sleeping on it
BackoffWithoutLastSleep ==
  /\ pc = "response"
  /\ RateLimited(resp)
  /\ op' = [op EXCEPT !.attempt = @ + 1]
  /\ IF op.attempt + 1 < MaxRetries
     THEN /\ slept' = Append(slept, WaitTime(op.attempt))
          /\ now' = now + WaitTime(op.attempt)
          /\ pc' = "refresh" /\ UNCHANGED outcome
     ELSE Finish(Raised("RateLimitExceeded")) /\ UNCHANGED <<slept, now>>
  /\ UNCHANGED <<call, threads, env, client, clientsMade, session, sessionsMade, headers, ntlm,
                 token, token_expiry, issued, granted, resp, rejected, requests, log, posts>>

\* _request_with_retry, lines 152-156 and 160: a 429 is slept on, then the
\* loop goes on to the next attempt or runs out
Backoff ==
  /\ pc = "response"
  /\ RateLimited(resp)
  /\ slept' = Append(slept, WaitTime(op.attempt))
  /\ now' = now + WaitTime(op.attempt)
  /\ op' = [op EXCEPT !.attempt = @ + 1]
  /\ IF op.attempt + 1 < MaxRetries
     THEN pc' = "refresh" /\ UNCHANGED outcome
     ELSE Finish(Raised("RateLimitExceeded"))
  /\ UNCHANGED <<call, threads, env, client, clientsMade, session, sessionsMade, headers, ntlm,
                 token, token_expiry, issued, granted, resp, rejected, requests, log, posts>>

\* a page reader that takes a missing "value" for one null record
PageRecordsNullForMissing(body) == IF IsNone(body.value) THEN <<None>> ELSE body.value[1]

\* data.get("value", [])
PageRecords(body) == IF IsNone(body.value) THEN <<>> ELSE body.value[1]

\* a loop condition that takes every link that is there, the empty one too
TruthyUnlessNone(url) == ~IsNone(url)

\* while url: a link that is None or "" ends the loop
Truthy(url) == ~IsNone(url) /\ url[1] # <<>>

\* a pagination step that sends the first request's params again
NextPageKeepsParams(o, body) ==
  [o EXCEPT !.results = o.results \o (IF IsNone(body.value) THEN <<>> ELSE body.value[1]),
            !.url = body.next, !.page = @ + 1, !.attempt = 0]

\* a pagination step that carries the attempts made so far over to the next page
NextPageKeepsAttempt(o, body) ==
  [o EXCEPT !.results = o.results \o (IF IsNone(body.value) THEN <<>> ELSE body.value[1]),
            !.url = body.next, !.params = NoParams, !.page = @ + 1]

\* query, lines 210-216: the locals after one decoded page; a fresh
\* _request_with_retry call starts its attempts from 0
NextPage(o, body) ==
  [o EXCEPT !.results = o.results \o PageRecords(body), !.url = body.next,
            !.params = NoParams, !.page = @ + 1, !.attempt = 0]

\* query, lines 208-218: the returned response is raised on or decoded, its
\* records appended, and its link followed
QueryPage ==
  /\ pc = "response"
  /\ ~RateLimited(resp)
  /\ op.kind = "query"
  /\ IF RaiseForStatus(resp.status)
     THEN Finish(Raised("UpstreamHttpError")) /\ UNCHANGED <<op, slept>>
     ELSE /\ op' = NextPage(op, resp.body)
          /\ IF Truthy(op'.url)
             THEN pc' = "refresh" /\ slept' = <<>> /\ UNCHANGED outcome
             ELSE /\ Finish([NoOutcome EXCEPT !.kind = "ok", !.list = op'.results])
                  /\ UNCHANGED slept
  /\ UNCHANGED <<call, threads, env, client, clientsMade, session, sessionsMade, headers, ntlm,
                 token, token_expiry, issued, granted, now, resp, rejected, requests, log, posts>>

\* query_single, lines 240-244
QuerySingleResult ==
  /\ pc = "response"
  /\ ~RateLimited(resp)
  /\ op.kind = "query_single"
  /\ IF resp.status = 404
     THEN Finish([NoOutcome EXCEPT !.kind = "ok"])
     ELSE IF RaiseForStatus(resp.status)
     THEN Finish(Raised("UpstreamHttpError"))
     ELSE Finish([NoOutcome EXCEPT !.kind = "ok", !.body = Some(resp.body)])
  /\ UNCHANGED <<call, threads, env, client, clientsMade, session, sessionsMade, headers, ntlm,
                 token, token_expiry, issued, granted, now, op, resp, rejected, requests, log,
                 slept, posts>>

\* aggregate, lines 260-261
AggregateResult ==
  /\ pc = "response"
  /\ ~RateLimited(resp)
  /\ op.kind = "aggregate"
  /\ IF RaiseForStatus(resp.status)
     THEN Finish(Raised("UpstreamHttpError"))
     ELSE Finish([NoOutcome EXCEPT !.kind = "ok", !.body = Some(resp.body)])
  /\ UNCHANGED <<call, threads, env, client, clientsMade, session, sessionsMade, headers, ntlm,
                 token, token_expiry, issued, granted, now, op, resp, rejected, requests, log,
                 slept, posts>>

\* get_count, lines 277-278
CountResult ==
  /\ pc = "response"
  /\ ~RateLimited(resp)
  /\ op.kind = "get_count"
  /\ IF RaiseForStatus(resp.status)
     THEN Finish(Raised("UpstreamHttpError"))
     ELSE IF ~IsInt(resp.text)
     THEN Finish(Raised("ValueError"))
     ELSE Finish([NoOutcome EXCEPT !.kind = "ok", !.number = Some(IntOf(resp.text))])
  /\ UNCHANGED <<call, threads, env, client, clientsMade, session, sessionsMade, headers, ntlm,
                 token, token_expiry, issued, granted, now, op, resp, rejected, requests, log,
                 slept, posts>>

\* the operation hands its result (or its error) back; its locals go
Leave ==
  /\ pc = "done"
  /\ pc' = "idle"
  /\ rejected' = (outcome.err = "AuthenticationError")
  /\ op' = NoOp /\ resp' = NoResp /\ outcome' = NoOutcome
  /\ log' = <<>> /\ slept' = <<>> /\ posts' = 0
  /\ UNCHANGED <<threads, env, client, clientsMade, session, sessionsMade, headers, ntlm,
                 token, token_expiry, issued, granted, now, requests>>

\* the operation returns to a caller that keeps nothing of it
Return ==
  /\ Leave
  /\ UNCHANGED call

\* time passes between operations and between attempts: long enough for a
\* token of the default lifetime to reach its stored expiry
Tick ==
  /\ pc \in {"idle", "refresh"}
  /\ now + (DefaultExpiresIn - ExpiryMargin) <= MaxTime
  /\ now' = now + (DefaultExpiresIn - ExpiryMargin)
  /\ UNCHANGED <<call, threads, env, client, clientsMade, session, sessionsMade, headers, ntlm,
                 token, token_expiry, issued, granted, pc, op, resp, outcome, rejected, requests,
                 log, slept, posts>>

Next ==
  \/ StartQuery
  \/ StartQuerySingle
  \/ StartAggregate
  \/ StartCount
  \/ Refresh
  \/ Send
  \/ Backoff
  \/ QueryPage
  \/ QuerySingleResult
  \/ AggregateResult
  \/ CountResult
  \/ Return
  \/ Tick

Spec == Init /\ [][Next]_vars

\* ============================================================ the server
\* server.py and tools/*.py: call_tool routes a tool call by the prefix of its
\* name to a domain module's handle_tool, which recognises the name, checks
\* the arguments and calls a client method; the method runs its requests on
\* the client as the operations above do; whatever is raised on the way is
\* turned into an error payload. The clock moves by the sleeps of the retry
\* loop; a token that expires between two calls is the subject of Spec.

\* str.startswith
StartsWith(s, p) == Len(s) >= Len(p) /\ SubSeq(s, 1, Len(p)) = p

\* the six domain modules under tools/
Modules == {"machines", "sessions", "connections", "applications", "users", "analytics"}

\* the names each module's get_tools() registers
GetTools(module) ==
  CASE module = "machines" ->
         {"citrix_machine_list", "citrix_machine_status", "citrix_machine_metrics",
          "citrix_machine_failures"}
    [] module = "sessions" ->
         {"citrix_session_list", "citrix_session_details",
          "citrix_session_logon_metrics", "citrix_session_count"}
    [] module = "connections" ->
         {"citrix_connection_list", "citrix_connection_failures",
          "citrix_failure_summary"}
    [] module = "applications" ->
         {"citrix_app_list", "citrix_app_instances", "citrix_app_errors"}
    [] module = "users" ->
         {"citrix_user_list", "citrix_user_details", "citrix_user_sessions"}
    [] module = "analytics" ->
         {"citrix_query_raw", "citrix_delivery_groups", "citrix_hypervisors",
          "citrix_load_index", "citrix_entity_count", "citrix_aggregate"}

\* list_tools(): the names of the tools of all six modules
ListTools == UNION {GetTools(module) : module \in Modules}

\* names no module registers: under each routing prefix, under none, and
\* near misses of a prefix and of a registered name
UnknownNames ==
  {"citrix_machine_reboot", "citrix_machines", "citrix_session_kill",
   "citrix_connection_drop", "citrix_failure_list", "citrix_app_delete",
   "citrix_application_list", "citrix_user_delete", "citrix_users",
   "citrix_unknown", "citrix_machin", "Citrix_machine_list", "machine_list", ""}

\* a routing that does not know the citrix_failure prefix
RouteWithoutFailurePrefix(name) ==
  IF StartsWith(name, "citrix_machine") THEN "machines"
  ELSE IF StartsWith(name, "citrix_session") THEN "sessions"
  ELSE IF StartsWith(name, "citrix_connection") THEN "connections"
  ELSE IF StartsWith(name, "citrix_app") THEN "applications"
  ELSE IF StartsWith(name, "citrix_user") THEN "users"
  ELSE "analytics"

\* call_tool, lines 42-54: the module whose handle_tool gets the call
Route(name) ==
  IF StartsWith(name, "citrix_machine") THEN "machines"
  ELSE IF StartsWith(name, "citrix_session") THEN "sessions"
  ELSE IF StartsWith(name, "citrix_connection") \/ StartsWith(name, "citrix_failure")
  THEN "connections"
  ELSE IF StartsWith(name, "citrix_app") THEN "applications"
  ELSE IF StartsWith(name, "citrix_user") THEN "users"
  ELSE "analytics"

\* the arguments dict, by the keys the handlers read with arguments.get (a
\* key that is missing reads as None)
NoArguments ==
  [filter |-> None, registration_state |-> None, power_state |-> None,
   in_maintenance |-> None, machine_id |-> None, name |-> None, session_key |-> None,
   active_only |-> None, entity |-> None, apply |-> None, user_id |-> None,
   username |-> None, select |-> None, orderby |-> None, top |-> None, expand |-> None,
   machine_name |-> None, user_name |-> None, delivery_group |-> None, days |-> None,
   app_id |-> None, app_name |-> None]

\* the argument sets a tool is called with: each argument absent or given,
\* strings also empty, integers also 0
Arguments(name) ==
  CASE name = "citrix_machine_list" ->
         {[NoArguments EXCEPT !.filter = f, !.registration_state = r, !.power_state = p,
                              !.in_maintenance = m] :
            f \in {None, Some(""), Some("Name eq 'x'")}, r \in {None, Some("Registered")},
            p \in {None, Some("On")}, m \in {None, Some(TRUE), Some(FALSE)}}
    [] name \in {"citrix_machine_status", "citrix_machine_metrics",
                 "citrix_machine_failures"} ->
         {[NoArguments EXCEPT !.machine_id = i, !.name = n] :
            i \in {None, Some(0), Some(7)}, n \in {None, Some("vda1")}}
    [] name = "citrix_session_list" ->
         {[NoArguments EXCEPT !.filter = f, !.active_only = a, !.user_name = u,
                              !.machine_name = u] :
            f \in {None, Some("LogOnDuration gt 30")}, a \in {None, Some(TRUE)},
            u \in {Some("ann")}}
         \cup {NoArguments}
    [] name \in {"citrix_session_details", "citrix_session_logon_metrics"} ->
         {[NoArguments EXCEPT !.session_key = k] : k \in {None, Some(""), Some("k1")}}
    [] name = "citrix_session_count" ->
         {[NoArguments EXCEPT !.filter = f, !.active_only = a] :
            f \in {None, Some("UserId eq 3")}, a \in {None, Some(TRUE), Some(FALSE)}}
    [] name \in GetTools("connections") ->
         {[NoArguments EXCEPT !.filter = f, !.session_key = k, !.delivery_group = k,
                              !.days = d] :
            f \in {None, Some("IsReconnect eq true")}, k \in {None, Some("k1")},
            d \in {Some(1)}}
         \cup {NoArguments}
    [] name \in GetTools("applications") ->
         {[NoArguments EXCEPT !.filter = n, !.app_id = i, !.app_name = n,
                              !.active_only = a] :
            i \in {None, Some(0), Some(4)}, n \in {Some("calc")}, a \in {None, Some(TRUE)}}
         \cup {NoArguments}
    [] name \in GetTools("users") ->
         {[NoArguments EXCEPT !.user_id = i, !.username = n, !.filter = n] :
            i \in {None, Some(0), Some(3)}, n \in {None, Some("ann")}}
    [] name = "citrix_query_raw" ->
         {[NoArguments EXCEPT !.entity = Some("Machines"), !.filter = o, !.select = s,
                              !.orderby = o, !.top = t, !.expand = x] :
            o \in {None, Some("Name")}, s \in {None, Some(<<>>), Some(<<"Id", "Name">>)},
            t \in {None, Some(0), Some(5)}, x \in {Some(<<"Sessions", "Catalog">>)}}
         \cup {NoArguments, [NoArguments EXCEPT !.entity = Some("Machines")]}
    [] name = "citrix_load_index" ->
         {[NoArguments EXCEPT !.machine_id = i, !.machine_name = n] :
            i \in {None, Some(0), Some(7)}, n \in {None, Some("vda1")}}
    [] name \in {"citrix_entity_count", "citrix_aggregate"} ->
         {[NoArguments EXCEPT !.entity = e, !.apply = a,
                              !.filter = IF a = None THEN None
                                         ELSE Some("EndDate eq null")] :
            e \in {None, Some(""), Some("Sessions")},
            a \in {None, Some("aggregate(SessionCount with sum as Total)")}}
    [] OTHER -> {NoArguments}

\* sep.join(list) of strings
RECURSIVE JoinWith(_, _)
JoinWith(sep, list) ==
  IF list = <<>> THEN ""
  ELSE IF Len(list) = 1 THEN list[1]
  ELSE list[1] \o sep \o JoinWith(sep, Tail(list))

\* str(bool)
StrBool(b) == IF b THEN "True" ELSE "False"

\* the ASCII letters: upper case, then lower case in the same order
Letters == <<"A", "B", "C", "D", "E", "F", "G", "H", "I", "J", "K", "L", "M",
             "N", "O", "P", "Q", "R", "S", "T", "U", "V", "W", "X", "Y", "Z",
             "a", "b", "c", "d", "e", "f", "g", "h", "i", "j", "k", "l", "m",
             "n", "o", "p", "q", "r", "s", "t", "u", "v", "w", "x", "y", "z">>

\* str.lower(), over the ASCII letters
RECURSIVE Lower(_)
Lower(s) ==
  IF Len(s) = 0 THEN ""
  ELSE LET c == SubSeq(s, 1, 1)
           at == {i \in 1..26 : Letters[i] = c}
       IN (IF at = {} THEN c ELSE Letters[26 + (CHOOSE i \in at : TRUE)])
          \o Lower(SubSeq(s, 2, Len(s)))

Digits == <<"0", "1", "2", "3", "4", "5", "6", "7", "8", "9">>

\* str(n), of a natural number: what an f-string puts for {machine_id}
RECURSIVE StrInt(_)
StrInt(n) ==
  IF n < 10 THEN Digits[n + 1] ELSE StrInt(n \div 10) \o Digits[(n % 10) + 1]

\* Python truthiness of an optional bool
TruthyBool(o) == ~IsNone(o) /\ o[1]

\* filters.append(fragment) when the condition holds
Fragment(condition, text) == IF condition THEN <<text>> ELSE <<>>

\* " and ".join(filters) if filters else None
CombinedFilter(filters) ==
  IF filters # <<>> THEN Some(JoinWith(" and ", filters)) ELSE None

\* the requests of the client's four operations, as the first request each
\* makes: query (lines 188-205), query_single (233-238), aggregate (256-259),
\* get_count (273-276)
Query(entity, q) == [url |-> EntityUrl(entity), params |-> QueryParams(q)]
QuerySingle(entity, key, expand) ==
  [url |-> KeyUrl(entity, "(" \o key \o ")"), params |-> SingleParams(expand)]
Aggregate(entity, apply) == [url |-> EntityUrl(entity), params |-> AggregateParams(apply)]
GetCount(entity, filter) == [url |-> CountUrl(entity), params |-> CountParams(filter)]

\* the options of a query() call that passes none: the defaults of lines 165-171
NoOptions == [filter |-> None, select |-> None, orderby |-> None, top |-> None,
              skip |-> None, expand |-> None, count |-> FALSE]

\* (datetime.utcnow() - timedelta(days=days)).isoformat() + "Z", as a term
\* naming that instant; arguments.get("days", 7)
StartDate(days) == "utcnow-" \o StrInt(days) \o "d" \o "Z"
Days(a) == IF a.days = None THEN 7 ELSE a.days[1]

\* a list_machines that takes the maintenance flag by its truth value
ListMachinesFiltersTruthy(a) ==
  (IF TruthyStr(a.filter) THEN <<a.filter[1]>> ELSE <<>>)
  \o (IF TruthyStr(a.registration_state)
      THEN <<"CurrentRegistrationState eq '" \o a.registration_state[1] \o "'">>
      ELSE <<>>)
  \o (IF TruthyStr(a.power_state)
      THEN <<"CurrentPowerState eq '" \o a.power_state[1] \o "'">> ELSE <<>>)
  \o (IF a.in_maintenance # None /\ a.in_maintenance[1]
      THEN <<"IsInMaintenanceMode eq " \o Lower(StrBool(a.in_maintenance[1]))>>
      ELSE <<>>)

\* list_machines, lines 292-300: the filters list
ListMachinesFilters(a) ==
  (IF TruthyStr(a.filter) THEN <<a.filter[1]>> ELSE <<>>)
  \o (IF TruthyStr(a.registration_state)
      THEN <<"CurrentRegistrationState eq '" \o a.registration_state[1] \o "'">>
      ELSE <<>>)
  \o (IF TruthyStr(a.power_state)
      THEN <<"CurrentPowerState eq '" \o a.power_state[1] \o "'">> ELSE <<>>)
  \o (IF a.in_maintenance # None
      THEN <<"IsInMaintenanceMode eq " \o Lower(StrBool(a.in_maintenance[1]))>>
      ELSE <<>>)

\* list_machines, line 303: query("Machines", filter=combined_filter)
ListMachines(a) ==
  Query("Machines", [NoOptions EXCEPT !.filter = CombinedFilter(ListMachinesFilters(a))])

\* get_machine, line 307
GetMachine(machine_id) == QuerySingle("Machines", StrInt(machine_id), None)

\* get_machine_by_name, line 311: query("Machines", filter=..., top=1)
GetMachineByName(name) ==
  Query("Machines", [NoOptions EXCEPT !.filter = Some("Name eq '" \o name \o "'"),
                                      !.top = Some(1)])

\* get_machine_metrics, lines 323-330: no query (None) when there is no id
GetMachineMetricsQuery(id) ==
  IF ~TruthyInt(id) THEN None
  ELSE Some(Query("ResourceUtilization",
                  [NoOptions EXCEPT !.filter = Some("MachineId eq " \o StrInt(id[1])),
                                    !.orderby = Some("CreatedDate desc")]))

\* get_machine_failures, lines 341-348
GetMachineFailuresQuery(id) ==
  IF ~TruthyInt(id) THEN None
  ELSE Some(Query("MachineFailureLogs",
                  [NoOptions EXCEPT !.filter = Some("MachineId eq " \o StrInt(id[1])),
                                    !.orderby = Some("FailureStartDate desc")]))

\* list_sessions, lines 362-378
ListSessions(a) ==
  Query("Sessions",
        [NoOptions EXCEPT
           !.filter = CombinedFilter(
              Fragment(TruthyStr(a.filter), a.filter[1])
              \o Fragment(TruthyBool(a.active_only), "EndDate eq null")
              \o Fragment(TruthyStr(a.user_name),
                          "User/UserName eq '" \o a.user_name[1] \o "'")
              \o Fragment(TruthyStr(a.machine_name),
                          "Machine/Name eq '" \o a.machine_name[1] \o "'")),
           !.expand = Some(<<"User", "Machine">>),
           !.orderby = Some("StartDate desc")])

\* get_session, line 382
GetSession(session_key) ==
  QuerySingle("Sessions", "'" \o session_key \o "'", Some(<<"User", "Machine">>))

\* get_logon_metrics, lines 386-389
GetLogonMetrics(session_key) ==
  Query("LogOnMetrics",
        [NoOptions EXCEPT !.filter = Some("SessionKey eq '" \o session_key \o "'")])

\* tools/sessions.py, lines 115-121: the filter citrix_session_count counts by
SessionCountFilter(a) ==
  IF TruthyBool(a.active_only)
  THEN IF TruthyStr(a.filter) THEN Some("(" \o a.filter[1] \o ") and EndDate eq null")
       ELSE Some("EndDate eq null")
  ELSE a.filter

\* list_connections, lines 401-412
ListConnections(a) ==
  Query("Connections",
        [NoOptions EXCEPT
           !.filter = CombinedFilter(
              Fragment(TruthyStr(a.filter), a.filter[1])
              \o Fragment(TruthyStr(a.session_key),
                          "SessionKey eq '" \o a.session_key[1] \o "'")),
           !.orderby = Some("LogOnStartDate desc")])

\* get_connection_failures, lines 421-438
GetConnectionFailures(a) ==
  Query("ConnectionFailureLogs",
        [NoOptions EXCEPT
           !.filter = CombinedFilter(
              Fragment(TruthyStr(a.filter), a.filter[1])
              \o Fragment(TruthyStr(a.delivery_group),
                          "DesktopGroup/Name eq '" \o a.delivery_group[1] \o "'")
              \o <<"FailureDate ge " \o StartDate(Days(a))>>),
           !.expand = Some(<<"DesktopGroup">>),
           !.orderby = Some("FailureDate desc")])

\* get_failure_summary, lines 559-573
GetFailureSummary(a) ==
  Query("FailureLogSummaries",
        [NoOptions EXCEPT
           !.filter = CombinedFilter(
              Fragment(TruthyStr(a.delivery_group),
                       "DesktopGroup/Name eq '" \o a.delivery_group[1] \o "'")
              \o <<"SummaryDate ge " \o StartDate(Days(a))>>),
           !.expand = Some(<<"DesktopGroup">>),
           !.orderby = Some("SummaryDate desc")])

\* list_applications, line 446; list_users, line 497
ListApplications(a) == Query("Applications", [NoOptions EXCEPT !.filter = a.filter])
ListUsers(a) == Query("Users", [NoOptions EXCEPT !.filter = a.filter])

\* list_app_instances, lines 455-469
ListAppInstances(a) ==
  Query("ApplicationInstances",
        [NoOptions EXCEPT
           !.filter = CombinedFilter(
              Fragment(TruthyInt(a.app_id), "ApplicationId eq " \o StrInt(a.app_id[1]))
              \o Fragment(TruthyStr(a.app_name),
                          "Application/Name eq '" \o a.app_name[1] \o "'")
              \o Fragment(TruthyBool(a.active_only), "EndDate eq null")),
           !.expand = Some(<<"Application">>),
           !.orderby = Some("StartDate desc")])

\* get_app_errors, lines 475-489
GetAppErrors(a) ==
  Query("ApplicationFaults",
        [NoOptions EXCEPT
           !.filter = CombinedFilter(
              Fragment(TruthyStr(a.app_name),
                       "Application/Name eq '" \o a.app_name[1] \o "'")
              \o <<"CreatedDate ge " \o StartDate(Days(a))>>),
           !.expand = Some(<<"Application">>),
           !.orderby = Some("CreatedDate desc")])

\* get_user, line 501
GetUser(user_id) == QuerySingle("Users", StrInt(user_id), None)

\* get_user_by_name, line 505
GetUserByName(username) ==
  Query("Users", [NoOptions EXCEPT !.filter = Some("UserName eq '" \o username \o "'"),
                                   !.top = Some(1)])

\* get_user_sessions, lines 517-525
GetUserSessionsQuery(id) ==
  IF ~TruthyInt(id) THEN None
  ELSE Some(Query("Sessions",
                  [NoOptions EXCEPT !.filter = Some("UserId eq " \o StrInt(id[1])),
                                    !.expand = Some(<<"Machine">>),
                                    !.orderby = Some("StartDate desc")]))

\* list_delivery_groups, line 533; list_hypervisors, line 537
ListDeliveryGroups == Query("DesktopGroups", NoOptions)
ListHypervisors == Query("Hypervisors", NoOptions)

\* get_load_indexes, lines 548-553
GetLoadIndexesQuery(id) ==
  Some(Query("LoadIndexes",
             [NoOptions EXCEPT !.filter = IF TruthyInt(id)
                                          THEN Some("MachineId eq " \o StrInt(id[1]))
                                          ELSE None,
                               !.orderby = Some("CreatedDate desc")]))

\* tools/analytics.py, lines 133-140: the options citrix_query_raw passes on
QueryRawOptions(a) ==
  [NoOptions EXCEPT !.filter = a.filter, !.select = a.select, !.orderby = a.orderby,
                    !.top = a.top, !.expand = a.expand]

\* the client methods that look a name up first (lines 318-321, 336-339,
\* 512-515, 543-546): the name and the id each is given by its tool, the
\* lookup it makes, and the query it makes for the id it has
ScopedName(method, a) ==
  CASE method = "get_load_indexes" -> a.machine_name
    [] method = "get_user_sessions" -> a.username
    [] OTHER -> a.name
ScopedId(method, a) == IF method = "get_user_sessions" THEN a.user_id ELSE a.machine_id
Lookup(method, name) ==
  IF method = "get_user_sessions" THEN GetUserByName(name) ELSE GetMachineByName(name)
ScopedQueryOf(method, id) ==
  CASE method = "get_machine_metrics" -> GetMachineMetricsQuery(id)
    [] method = "get_machine_failures" -> GetMachineFailuresQuery(id)
    [] method = "get_load_indexes" -> GetLoadIndexesQuery(id)
    [] method = "get_user_sessions" -> GetUserSessionsQuery(id)

\* lines 312 and 318-321: machines[0] if machines else None, and machine_id
\* after the lookup that returned machines; the Id of the record with number
\* i of page p is 10 * p + i
ResolvedId(id, machines) ==
  IF machines # <<>> THEN Some(10 * machines[1][2] + machines[1][3]) ELSE id

\* what a handle_tool does with a call: it raises, it calls one of the
\* client's four operations with a request, or it calls a method that looks a
\* name up first
Raise(message) == [raised |-> Some(message), method |-> "none", kind |-> "none",
                   query |-> None]
Calls(method, kind, request) == [raised |-> None, method |-> method, kind |-> kind,
                                 query |-> Some(request)]
CallsScoped(method) == [raised |-> None, method |-> method, kind |-> "query",
                        query |-> None]

\* an unknown-tool error that does not name the tool
UnknownToolUnnamed(name) == Raise("Unknown tool")

\* the final else of every handle_tool
UnknownTool(name) == Raise("Unknown tool: " \o name)

\* tools/machines.py, handle_tool
MachinesHandleTool(name, a) ==
  IF name = "citrix_machine_list"
  THEN Calls("list_machines", "query", ListMachines(a))
  ELSE IF name = "citrix_machine_status"
  THEN IF TruthyInt(a.machine_id)
       THEN Calls("get_machine", "query_single", GetMachine(a.machine_id[1]))
       ELSE IF TruthyStr(a.name)
       THEN Calls("get_machine_by_name", "query", GetMachineByName(a.name[1]))
       ELSE Raise("Either machine_id or name is required")
  ELSE IF name = "citrix_machine_metrics" THEN CallsScoped("get_machine_metrics")
  ELSE IF name = "citrix_machine_failures" THEN CallsScoped("get_machine_failures")
  ELSE UnknownTool(name)

\* tools/sessions.py, handle_tool
SessionsHandleTool(name, a) ==
  IF name = "citrix_session_list" THEN Calls("list_sessions", "query", ListSessions(a))
  ELSE IF name = "citrix_session_details"
  THEN IF ~TruthyStr(a.session_key) THEN Raise("session_key is required")
       ELSE Calls("get_session", "query_single", GetSession(a.session_key[1]))
  ELSE IF name = "citrix_session_logon_metrics"
  THEN IF ~TruthyStr(a.session_key) THEN Raise("session_key is required")
       ELSE Calls("get_logon_metrics", "query", GetLogonMetrics(a.session_key[1]))
  ELSE IF name = "citrix_session_count"
  THEN Calls("get_count", "get_count", GetCount("Sessions", SessionCountFilter(a)))
  ELSE UnknownTool(name)

\* tools/connections.py, handle_tool
ConnectionsHandleTool(name, a) ==
  IF name = "citrix_connection_list"
  THEN Calls("list_connections", "query", ListConnections(a))
  ELSE IF name = "citrix_connection_failures"
  THEN Calls("get_connection_failures", "query", GetConnectionFailures(a))
  ELSE IF name = "citrix_failure_summary"
  THEN Calls("get_failure_summary", "query", GetFailureSummary(a))
  ELSE UnknownTool(name)

\* tools/applications.py, handle_tool
ApplicationsHandleTool(name, a) ==
  IF name = "citrix_app_list"
  THEN Calls("list_applications", "query", ListApplications(a))
  ELSE IF name = "citrix_app_instances"
  THEN Calls("list_app_instances", "query", ListAppInstances(a))
  ELSE IF name = "citrix_app_errors" THEN Calls("get_app_errors", "query", GetAppErrors(a))
  ELSE UnknownTool(name)

\* tools/users.py, handle_tool
UsersHandleTool(name, a) ==
  IF name = "citrix_user_list" THEN Calls("list_users", "query", ListUsers(a))
  ELSE IF name = "citrix_user_details"
  THEN IF TruthyInt(a.user_id)
       THEN Calls("get_user", "query_single", GetUser(a.user_id[1]))
       ELSE IF TruthyStr(a.username)
       THEN Calls("get_user_by_name", "query", GetUserByName(a.username[1]))
       ELSE Raise("Either user_id or username is required")
  ELSE IF name = "citrix_user_sessions" THEN CallsScoped("get_user_sessions")
  ELSE UnknownTool(name)

\* tools/analytics.py, handle_tool
AnalyticsHandleTool(name, a) ==
  IF name = "citrix_query_raw"
  THEN IF ~TruthyStr(a.entity) THEN Raise("entity is required")
       ELSE Calls("query", "query", Query(a.entity[1], QueryRawOptions(a)))
  ELSE IF name = "citrix_delivery_groups"
  THEN Calls("list_delivery_groups", "query", ListDeliveryGroups)
  ELSE IF name = "citrix_hypervisors"
  THEN Calls("list_hypervisors", "query", ListHypervisors)
  ELSE IF name = "citrix_load_index" THEN CallsScoped("get_load_indexes")
  ELSE IF name = "citrix_entity_count"
  THEN IF ~TruthyStr(a.entity) THEN Raise("entity is required")
       ELSE Calls("get_count", "get_count", GetCount(a.entity[1], a.filter))
  ELSE IF name = "citrix_aggregate"
  THEN IF ~TruthyStr(a.entity) \/ ~TruthyStr(a.apply)
       THEN Raise("entity and apply are required")
       ELSE Calls("aggregate", "aggregate", Aggregate(a.entity[1], a.apply[1]))
  ELSE UnknownTool(name)

\* <module>.handle_tool(name, arguments)
HandleToolOf(module, name, a) ==
  CASE module = "machines" -> MachinesHandleTool(name, a)
    [] module = "sessions" -> SessionsHandleTool(name, a)
    [] module = "connections" -> ConnectionsHandleTool(name, a)
    [] module = "applications" -> ApplicationsHandleTool(name, a)
    [] module = "users" -> UsersHandleTool(name, a)
    [] module = "analytics" -> AnalyticsHandleTool(name, a)

\* JSON documents, by their kind: a list, an object with its members, null;
\* a record the upstream sent stands for itself
Array(items) == <<"array", items>>
Object(members) == <<"object", members>>
Null == <<"null">>

\* server.py, line 59: {"error": str(e)}
ErrorDocument(message) == Object([error |-> message])

\* what the handler returns from the outcome o of its client operation:
\* machines[0] if machines else None (lines 312, 506), the list of query(),
\* the object or None of query_single(), the object of aggregate(), and the
\* objects built around get_count() (tools/sessions.py line 121,
\* tools/analytics.py line 158)
ResultOf(c, o) ==
  IF c.method \in {"get_machine_by_name", "get_user_by_name"}
  THEN IF o.list # <<>> THEN o.list[1] ELSE Null
  ELSE IF c.kind = "query" THEN Array(o.list)
  ELSE IF c.kind = "query_single"
  THEN IF o.body = None THEN Null ELSE Object(o.body[1])
  ELSE IF c.kind = "aggregate" THEN Object(o.body[1])
  ELSE IF c.name = "citrix_session_count" THEN Object([count |-> o.number[1]])
  ELSE Object([entity |-> c.arguments.entity[1], count |-> o.number[1]])

\* format_result: json.dumps of a document, as the term naming that text
FormatResult(document) == <<"json", document>>
TextContent(document) == [type |-> "text", text |-> FormatResult(document)]

\* a call_tool whose except clause lets the error go on
AnswerUncaught(c) ==
  IF c.raised # None
  THEN [c EXCEPT !.stage = "escaped"]
  ELSE [c EXCEPT !.stage = "returned", !.payload = <<TextContent(c.result[1])>>]

\* call_tool, lines 56-59: the return of the try block and of the except clause
Answer(c) ==
  IF c.raised # None
  THEN [c EXCEPT !.stage = "returned",
                 !.payload = <<TextContent(ErrorDocument(c.raised[1]))>>]
  ELSE [c EXCEPT !.stage = "returned", !.payload = <<TextContent(c.result[1])>>]

\* the locals of an operation of the client, entered with a request
OpOf(kind, request) ==
  [NoOp EXCEPT !.kind = kind, !.method = "GET", !.url = Some(request.url),
               !.params = request.params]

\* the client's fields and the process state that the server's own steps
\* leave alone
clientVars == <<env, session, sessionsMade, headers, ntlm, token, token_expiry, issued,
                granted, now, pc, op, resp, outcome, rejected, requests, log, slept,
                posts>>

\* call_tool(name, arguments) is entered and picks the module
CallTool ==
  /\ call.stage = "none"
  /\ \E name \in ListTools \cup UnknownNames : \E a \in Arguments(name) :
       call' = [NoCall EXCEPT !.stage = "routed", !.name = name, !.arguments = a,
                              !.handler = Route(name)]
  /\ UNCHANGED <<clientVars, client, clientsMade, threads>>

\* <module>.handle_tool up to its client call: get_client(), then the branch
\* of the name
HandleTool ==
  /\ call.stage = "routed"
  /\ GetClient
  /\ LET h == HandleToolOf(call.handler, call.name, call.arguments) IN
       call' = [call EXCEPT !.stage = IF h.raised # None THEN "raised"
                                      ELSE IF h.query = None THEN "helper"
                                      ELSE "client",
                            !.raised = h.raised, !.method = h.method, !.kind = h.kind,
                            !.query = h.query,
                            !.id = ScopedId(h.method, call.arguments)]
  /\ UNCHANGED <<env, sessionsMade, issued, granted, now, pc, op, resp, outcome,
                 rejected, requests, log, slept, posts, threads>>

\* the client method enters query(), query_single(), aggregate() or
\* get_count() with the request the handler's arguments give
ClientBegins ==
  /\ call.stage = "client"
  /\ Enter(OpOf(call.kind, call.query[1]))
  /\ call' = [call EXCEPT !.stage = "running", !.queries = Append(@, call.query[1])]
  /\ UNCHANGED <<client, clientsMade, session, headers, ntlm, token, token_expiry>>

\* what the data service may answer to the running operation's next request:
\* no answer, an error status, the text of a count, an object (one of them
\* with the one member "error"), a page
ToolResponses ==
  {[kind |-> "transport", status |-> 0, body |-> PlainBody, text |-> ""]}
  \cup {[kind |-> "response", status |-> st, body |-> PlainBody, text |-> ""] :
          st \in {404, 429, 500}}
  \cup (IF op.kind = "get_count"
        THEN {[kind |-> "response", status |-> 200, body |-> PlainBody, text |-> t] :
                t \in CountTexts}
        ELSE IF op.kind \in {"query_single", "aggregate"}
        THEN {[kind |-> "response", status |-> 200, body |-> b, text |-> ""] :
                b \in {PlainBody, [error |-> "ValueError"]}}
        ELSE {[kind |-> "response", status |-> 200, body |-> b, text |-> ""] :
                b \in {PlainBody,
                       [value |-> Some(Records(op.page)), next |-> None],
                       [value |-> Some(Records(op.page)), next |-> Some(Link(op.page))]}})

\* the request is sent, while the upstream still answers
SendOnCall ==
  /\ requests < MaxToolRequests
  /\ Transmit(ToolResponses)

\* the operation returns to the handler, or raises through it
ClientReturns ==
  /\ call.stage = "running"
  /\ Leave
  /\ call' = IF outcome.kind = "error"
             THEN [call EXCEPT !.stage = "raised", !.raised = Some(outcome.err)]
             ELSE [call EXCEPT !.stage = "result",
                               !.result = Some(ResultOf(call, outcome))]

\* a scoped method, lines 318-319 (336-337, 512-513, 543-544): a name that is
\* given is looked up with get_machine_by_name / get_user_by_name
ResolveName ==
  /\ call.stage = "helper"
  /\ LET name == ScopedName(call.method, call.arguments) IN
       IF ~TruthyStr(name)
       THEN /\ call' = [call EXCEPT !.stage = "resolved"]
            /\ UNCHANGED <<clientVars, threads>>
       ELSE /\ Enter(OpOf("query", Lookup(call.method, name[1])))
            /\ call' = [call EXCEPT !.stage = "lookup",
                                    !.queries = Append(@, Lookup(call.method, name[1]))]
  /\ UNCHANGED <<client, clientsMade, session, headers, ntlm, token, token_expiry>>

\* lines 312 and 320-321: the lookup's query() returns, and the first record's
\* Id is taken when there is a record; or it raises through the method
LookupReturns ==
  /\ call.stage = "lookup"
  /\ Leave
  /\ call' = IF outcome.kind = "error"
             THEN [call EXCEPT !.stage = "raised", !.lookup = "failed",
                               !.raised = Some(outcome.err)]
             ELSE [call EXCEPT !.stage = "resolved",
                               !.lookup = IF outcome.list # <<>> THEN "matched"
                                          ELSE "unmatched",
                               !.id = ResolvedId(call.id, outcome.list)]

\* a scoped method after the lookup: it returns the empty list, or it goes on
\* to the query for the id it has
ScopedQuery ==
  /\ call.stage = "resolved"
  /\ LET q == ScopedQueryOf(call.method, call.id) IN
       IF q = None
       THEN call' = [call EXCEPT !.stage = "result", !.result = Some(Array(<<>>))]
       ELSE call' = [call EXCEPT !.stage = "client", !.query = q]
  /\ UNCHANGED <<clientVars, client, clientsMade, threads>>

\* call_tool returns
Respond ==
  /\ call.stage \in {"result", "raised"}
  /\ call' = Answer(call)
  /\ UNCHANGED <<clientVars, client, clientsMade, threads>>

\* the server takes the next call
NextCall ==
  /\ call.stage \in {"returned", "escaped"}
  /\ call' = NoCall
  /\ UNCHANGED <<clientVars, client, clientsMade, threads>>

DispatchNext ==
  \/ CallTool
  \/ HandleTool
  \/ ResolveName
  \/ LookupReturns
  \/ ScopedQuery
  \/ ClientBegins
  \/ Refresh
  \/ SendOnCall
  \/ Backoff
  \/ QueryPage
  \/ QuerySingleResult
  \/ AggregateResult
  \/ CountResult
  \/ ClientReturns
  \/ Respond
  \/ NextCall

DispatchSpec == Init /\ [][DispatchNext]_vars

\* ===================================================== concurrent callers
\* Two operations run the refresh hook on the one client at the same time,
\* as threads: the statements of _get_cloud_token and _refresh_cloud_session
\* interleave, and nothing guards the cache. The client has been used before:
\* its session is built and it holds a token whose stored expiry is reached.

Threads == {1, 2}

\* the locals of one caller: where it stands, the clock reading it compares
\* the stored expiry with, the token endpoint's answer to it, the expiry it
\* computed, what _get_cloud_token returned to it
NoThread == [at |-> "check", clock |-> 0, posts |-> 0, access_token |-> 0,
             expires_in |-> None, expiry |-> None, ret |-> 0, err |-> "none"]

RaceInit ==
  /\ env = [deployment |-> "cloud", customer_id |-> TRUE, client_id |-> TRUE,
            client_secret |-> TRUE, username |-> TRUE, password |-> TRUE]
  /\ client = 1 /\ clientsMade = 1
  /\ session = 1 /\ sessionsMade = 1 /\ ntlm = FALSE
  /\ headers = [Authorization |-> CwsAuth(1), CustomerId |-> TRUE, Accept |-> TRUE]
  /\ token = 1 /\ issued = 1
  /\ token_expiry = Some(DefaultExpiresIn - ExpiryMargin)
  /\ granted = NoGrant
  /\ now = DefaultExpiresIn - ExpiryMargin
  /\ pc = "idle" /\ op = NoOp /\ resp = NoResp /\ outcome = NoOutcome
  /\ rejected = FALSE /\ requests = 0 /\ log = <<>> /\ slept = <<>> /\ posts = 0
  /\ call = NoCall
  /\ threads = [t \in Threads |-> NoThread]

raceFixed == <<env, client, clientsMade, session, sessionsMade, ntlm, granted, pc, op,
               resp, outcome, rejected, requests, log, slept, posts, call>>

\* _get_cloud_token, line 65, evaluated operand by operand:
\* `self._token and ...` loads the token
RaceCheck(t) ==
  /\ threads[t].at = "check"
  /\ threads' = [threads EXCEPT ![t] =
       [@ EXCEPT !.at = IF token # 0 THEN "check_expiry" ELSE "credentials"]]
  /\ UNCHANGED <<raceFixed, headers, token, token_expiry, issued, now>>

\* `... and self._token_expiry and ...` loads the stored expiry
RaceCheckExpiry(t) ==
  /\ threads[t].at = "check_expiry"
  /\ threads' = [threads EXCEPT ![t] =
       [@ EXCEPT !.at = IF ~IsNone(token_expiry) THEN "clock" ELSE "credentials"]]
  /\ UNCHANGED <<raceFixed, headers, token, token_expiry, issued, now>>

\* `datetime.now()` reads the clock
RaceReadClock(t) ==
  /\ threads[t].at = "clock"
  /\ threads' = [threads EXCEPT ![t] = [@ EXCEPT !.at = "compare", !.clock = now]]
  /\ UNCHANGED <<raceFixed, headers, token, token_expiry, issued, now>>

\* `... < self._token_expiry` loads the stored expiry again and compares the
\* reading with it
RaceCompare(t) ==
  /\ threads[t].at = "compare"
  /\ threads' = [threads EXCEPT ![t] =
       [@ EXCEPT !.at = IF threads[t].clock < token_expiry[1] THEN "cached"
                        ELSE "credentials"]]
  /\ UNCHANGED <<raceFixed, headers, token, token_expiry, issued, now>>

\* line 66: return self._token, the token as it is cached by now
RaceReturnCached(t) ==
  /\ threads[t].at = "cached"
  /\ threads' = [threads EXCEPT ![t] = [@ EXCEPT !.at = "header", !.ret = token]]
  /\ UNCHANGED <<raceFixed, headers, token, token_expiry, issued, now>>

\* lines 68-77: the credentials check
RaceCredentials(t) ==
  /\ threads[t].at = "credentials"
  /\ threads' = [threads EXCEPT ![t] =
       IF ~CloudCredentials THEN [@ EXCEPT !.at = "done", !.err = "ConfigurationError"]
       ELSE [@ EXCEPT !.at = "post"]]
  /\ UNCHANGED <<raceFixed, headers, token, token_expiry, issued, now>>

\* _get_cloud_token, lines 83-95: the exchange and its answer
RacePost(t) ==
  /\ threads[t].at = "post"
  /\ \E r \in TokenResponses :
       IF r.kind = "transport"
       THEN /\ threads' = [threads EXCEPT ![t] = [@ EXCEPT !.at = "done", !.posts = @ + 1,
                                                          !.err = "TransportError"]]
            /\ UNCHANGED issued
       ELSE IF RaiseForStatus(r.status)
       THEN /\ threads' = [threads EXCEPT ![t] = [@ EXCEPT !.at = "done", !.posts = @ + 1,
                                                          !.err = "AuthenticationError"]]
            /\ UNCHANGED issued
       ELSE IF r.body = "text"
       THEN /\ threads' = [threads EXCEPT ![t] = [@ EXCEPT !.at = "done", !.posts = @ + 1,
                                                          !.err = "JSONDecodeError"]]
            /\ UNCHANGED issued
       ELSE IF r.body = "object"
       THEN /\ threads' = [threads EXCEPT ![t] = [@ EXCEPT !.at = "write_token",
                                                          !.posts = @ + 1]]
            /\ UNCHANGED issued
       ELSE /\ threads' = [threads EXCEPT ![t] =
                 [@ EXCEPT !.at = "write_token", !.posts = @ + 1,
                           !.access_token = NextToken(issued),
                           !.expires_in = r.expires_in]]
            /\ issued' = NextToken(issued)
  /\ UNCHANGED <<raceFixed, headers, token, token_expiry, now>>

\* _get_cloud_token, line 96: self._token = token_data["access_token"], which
\* raises when the decoded answer has no access_token (0)
RaceWriteToken(t) ==
  /\ threads[t].at = "write_token"
  /\ IF threads[t].access_token = 0
     THEN /\ threads' = [threads EXCEPT ![t] = [@ EXCEPT !.at = "done", !.err = "KeyError"]]
          /\ UNCHANGED token
     ELSE /\ token' = threads[t].access_token
          /\ threads' = [threads EXCEPT ![t] = [@ EXCEPT !.at = "write_expiry"]]
  /\ UNCHANGED <<raceFixed, headers, token_expiry, issued, now>>

\* _get_cloud_token, lines 98-99, the right-hand side: the clock is read and
\* the expiry computed from the reading
RaceComputeExpiry(t) ==
  /\ threads[t].at = "write_expiry"
  /\ threads' = [threads EXCEPT ![t] = [@ EXCEPT !.at = "store_expiry",
                                                 !.expiry = TokenExpiry(threads[t])]]
  /\ UNCHANGED <<raceFixed, headers, token, token_expiry, issued, now>>

\* line 99, the assignment: self._token_expiry = <the expiry computed>
RaceWriteExpiry(t) ==
  /\ threads[t].at = "store_expiry"
  /\ token_expiry' = threads[t].expiry
  /\ threads' = [threads EXCEPT ![t] = [@ EXCEPT !.at = "return"]]
  /\ UNCHANGED <<raceFixed, headers, token, issued, now>>

\* _get_cloud_token, line 101: return self._token
RaceReturn(t) ==
  /\ threads[t].at = "return"
  /\ threads' = [threads EXCEPT ![t] = [@ EXCEPT !.at = "header", !.ret = token]]
  /\ UNCHANGED <<raceFixed, headers, token, token_expiry, issued, now>>

\* _refresh_cloud_session, line 139, on the session that exists
RaceHeader(t) ==
  /\ threads[t].at = "header"
  /\ headers' = [headers EXCEPT !.Authorization = CwsAuth(threads[t].ret)]
  /\ threads' = [threads EXCEPT ![t] = [@ EXCEPT !.at = "done"]]
  /\ UNCHANGED <<raceFixed, token, token_expiry, issued, now>>

\* time passes between any two statements
RaceTick ==
  /\ now < MaxTime
  /\ now' = MaxTime
  /\ UNCHANGED <<raceFixed, headers, token, token_expiry, issued, threads>>

RaceNext ==
  \/ \E t \in Threads : RaceCheck(t)
  \/ \E t \in Threads : RaceCheckExpiry(t)
  \/ \E t \in Threads : RaceReadClock(t)
  \/ \E t \in Threads : RaceCompare(t)
  \/ \E t \in Threads : RaceReturnCached(t)
  \/ \E t \in Threads : RaceCredentials(t)
  \/ \E t \in Threads : RacePost(t)
  \/ \E t \in Threads : RaceWriteToken(t)
  \/ \E t \in Threads : RaceComputeExpiry(t)
  \/ \E t \in Threads : RaceWriteExpiry(t)
  \/ \E t \in Threads : RaceReturn(t)
  \/ \E t \in Threads : RaceHeader(t)
  \/ RaceTick

RaceSpec == RaceInit /\ [][RaceNext]_vars

\* ========================================================= a finite chain
\* query() against a data service whose chain of next-page links is finite:
\* the page with number ChainLength - 1 carries no link to a further page.
\* Every request is answered, and the program's steps are taken when they can
\* be: the client is sequential code, and nothing but the upstream's answer
\* and the end of a sleep is waited for.

\* the decoded bodies of page p of the chain
ChainBodies(p) ==
  IF p + 1 < ChainLength THEN LastBodies(p) \cup LinkBodies(p) ELSE LastBodies(p)

\* what the data service answers to the running query's next request
ChainResponses ==
  {[kind |-> "transport", status |-> 0, body |-> PlainBody, text |-> ""]}
  \cup {[kind |-> "response", status |-> st, body |-> PlainBody, text |-> ""] :
          st \in Statuses}
  \cup {[kind |-> "response", status |-> 200, body |-> b, text |-> ""] :
          b \in ChainBodies(op.page)}

\* a query is started on the chain's first page: the first operation of the
\* process that gets as far as the upstream
StartQueryOnChain ==
  /\ requests = 0
  /\ StartQuery

\* the request is sent and answered
SendOnChain == Transmit(ChainResponses)

ChainNext ==
  \/ StartQueryOnChain
  \/ Refresh
  \/ SendOnChain
  \/ Backoff
  \/ QueryPage
  \/ Return
  \/ Tick

ChainSpec ==
  /\ Init
  /\ [][ChainNext]_vars
  /\ WF_vars(Refresh)
  /\ WF_vars(SendOnChain)
  /\ WF_vars(Backoff)
  /\ WF_vars(QueryPage)

\* ================================================================ claims
\* the running operation's last data request, and the requests of the
\* _request_with_retry call that request belongs to
LastSent == log[Len(log)]
CallLog == SelectSeq(log, LAMBDA e : e.page = LastSent.page)
StatusesOf(l) == [i \in 1..Len(l) |-> l[i].status]

\* ---------------------------------------------------------------- C1
RECURSIVE C1_Concat(_)
C1_Concat(l) ==
  IF l = <<>> THEN <<>>
  ELSE (IF Head(l).body.value = None THEN <<>> ELSE Head(l).body.value[1])
       \o C1_Concat(Tail(l))

\* a query that returned after a chain of pages, every one answered 2xx
C1_Chain ==
  /\ pc = "done" /\ op.kind = "query" /\ outcome.kind = "ok"
  /\ \A i \in 1..Len(log) : log[i].status >= 200 /\ log[i].status < 300

\* C1: over a finite chain of N pages linked by @odata.nextLink, each answered
\* 2xx, query returns the concatenation of the pages' value arrays in page
\* order, sends exactly N requests (one per page), the first to the entity URL
\* with the query parameters, every follow-up to the exact link of the page
\* before it and with no parameters.
C1_QueryConcatenatesPages ==
  C1_Chain =>
    /\ outcome.list = C1_Concat(log)
    /\ Len(log) >= 1
    /\ Cardinality({log[i].url : i \in 1..Len(log)}) = Len(log)
    /\ log[1].url = EntityUrl("Machines")
    /\ log[1].params \in {QueryParams(q) : q \in QuerySpecs}
    /\ log[1].params # NoParams
    /\ \A i \in 2..Len(log) :
         /\ log[i - 1].body.next = Some(log[i].url)
         /\ log[i].params = NoParams
    /\ LastSent.body.next \in {None, Some(<<>>)}

C1_Witness ==
  /\ C1_Chain
  /\ Len(log) = 3
  /\ outcome.list = Records(0) \o Records(1) \o Records(2)

\* ---------------------------------------------------------------- C2
\* a request attempt's refresh hook runs with a token in the cache
C2_Attempt == Cloud /\ token # 0 /\ pc = "refresh" /\ pc' # "refresh"

\* C2: the stored expiry is the exchange time + expires_in (3600 when absent)
\* - 300 s; an attempt made before it makes no token exchange and leaves the
\* cache alone, an attempt made at or after it makes exactly one, and sending
\* the request makes none.
C2_TokenReusedUntilExpiry ==
  /\ [](token # 0 =>
         token_expiry = Some(granted.at
                             + (IF granted.expires_in = None THEN 3600
                                ELSE granted.expires_in[1]) - 300))
  /\ [][(C2_Attempt /\ now < token_expiry[1]) =>
          (posts' = 0 /\ token' = token /\ token_expiry' = token_expiry)]_vars
  /\ [][(C2_Attempt /\ now >= token_expiry[1]) => posts' = 1]_vars
  /\ [][(Cloud /\ pc = "send") => posts' = posts]_vars

\* a token of the default lifetime has reached its expiry and the attempt
\* made then has exchanged once, for the second token
C2_Witness ==
  /\ pc = "send" /\ posts = 1 /\ token = 2
  /\ granted.expires_in = None
  /\ granted.at >= DefaultExpiresIn - ExpiryMargin

\* ---------------------------------------------------------------- C3
\* C3: with max_retries = 3, a call answered 429, 429, 200 hands back the 200
\* response on its third attempt having slept 5 s and then 10 s; a call
\* answered 429 on every attempt makes exactly max_retries attempts and then
\* raises the rate-limit error, returning no response.
C3_RetryThenSucceedOrExhaust ==
  /\ (pc = "response" /\ StatusesOf(CallLog) = <<429, 429, 200>>) =>
       /\ slept = <<5, 10>>
       /\ op.attempt = 2
       /\ ~RateLimited(resp)
       /\ resp.status = 200 /\ resp.body = LastSent.body
  /\ (/\ log # <<>>
      /\ pc # "response"
      /\ Len(CallLog) >= MaxRetries
      /\ \A i \in 1..MaxRetries : CallLog[i].status = 429) =>
       /\ pc = "done"
       /\ outcome = Raised("RateLimitExceeded")
       /\ Len(CallLog) = MaxRetries

C3_Witness ==
  /\ pc = "response"
  /\ StatusesOf(CallLog) = <<429, 429, 200>>
  /\ slept = <<5, 10>>

\* the other case of C3: the retries ran out
C3_WitnessExhausted ==
  /\ pc = "done" /\ outcome.err = "RateLimitExceeded"
  /\ StatusesOf(CallLog) = <<429, 429, 429>>

\* ---------------------------------------------------------------- C4
\* C4: only a 429 answer is retried. Within one _request_with_retry call no
\* attempt follows a non-429 answer or a network failure; such an answer is
\* handed to the caller unchanged and a network failure is raised at once;
\* and the call has slept at most once per 429 it received.
C4_OnlyRateLimitRetried ==
  /\ \A i \in 1..(Len(log) - 1) :
       /\ log[i].page = log[i + 1].page => log[i].status = 429
       /\ log[i].status # 0
  /\ log # <<>> =>
       /\ Len(slept) <= Cardinality({i \in 1..Len(CallLog) : CallLog[i].status = 429})
       /\ pc = "response" => (resp.status = LastSent.status /\ resp.body = LastSent.body)
       /\ LastSent.status = 0 => (pc = "done" /\ outcome = Raised("TransportError"))
       /\ (LastSent.status >= 500 /\ pc \notin {"response"}) =>
            (pc = "done" /\ outcome = Raised("UpstreamHttpError"))
  /\ log = <<>> => slept = <<>>

C4_Witness ==
  /\ pc = "done"
  /\ StatusesOf(log) = <<429, 500>>
  /\ slept = <<5>>
  /\ outcome = Raised("UpstreamHttpError")

\* ---------------------------------------------------------------- C5
\* a query_single call that ended on a response
C5_Answered ==
  /\ pc = "done" /\ op.kind = "query_single"
  /\ log # <<>> /\ LastSent.status \notin {0, 429}

\* C5: query_single returns None on a final 404, raises on every other
\* non-2xx final response, returns the decoded body on 2xx, and consumes
\* exactly one non-429 response (it follows no link).
C5_QuerySingleOutcome ==
  C5_Answered =>
    /\ LastSent.status = 404 => outcome = [NoOutcome EXCEPT !.kind = "ok"]
    /\ (LastSent.status # 404 /\ ~(LastSent.status >= 200 /\ LastSent.status < 300))
         => outcome.kind = "error"
    /\ (LastSent.status >= 200 /\ LastSent.status < 300)
         => outcome = [NoOutcome EXCEPT !.kind = "ok", !.body = Some(LastSent.body)]
    /\ Cardinality({i \in 1..Len(log) : log[i].status # 429}) = 1

\* ---------------------------------------------------------------- C6
C6_CredentialsMissing ==
  IF env.deployment = "cloud"
  THEN ~(env.customer_id /\ env.client_id /\ env.client_secret)
  ELSE ~(env.username /\ env.password)

\* C6: while the credentials of the active mode are missing, every operation
\* of any sequence fails with the configuration error and no data request is
\* ever sent.
C6_MissingCredentialsAlwaysFail ==
  C6_CredentialsMissing =>
    /\ requests = 0 /\ log = <<>>
    /\ pc = "done" => outcome = Raised("ConfigurationError")

\* ---------------------------------------------------------------- C7
\* C7: whatever expires_in a successful exchange carried, a getToken call made
\* with no time elapsed since finds the token cached (and so makes no call).
C7_FreshTokenIsCached ==
  (token # 0 /\ granted.at = now) => (token_expiry # None /\ now < token_expiry[1])

\* ---------------------------------------------------------------- C8
\* C8: in cloud mode every data request carries Authorization:
\* CWSAuth bearer=<token> and Citrix-CustomerId, whatever happened before.
C8_CloudRequestsCarryAuth ==
  env.deployment = "cloud" =>
    \A i \in 1..Len(log) :
      /\ log[i].headers.Authorization \in {Some(<<"CWSAuth bearer=", t>>) : t \in 1..NumTokens}
      /\ log[i].headers.CustomerId

\* ---------------------------------------------------------------- C9
\* C9: a token exchange answered with a status outside 2xx is rejected with
\* the authentication error: an operation that ended on a token answer of
\* such a status (outcome.status) ended with that error.
C9_NonSuccessIsRejected ==
  (pc = "done" /\ outcome.status # 0 /\ outcome.status \notin 200..299) =>
    outcome.err = "AuthenticationError"

\* the step on which an operation ends because raise_for_status raised on the
\* token answer (a 4xx or 5xx status)
C9_Rejection == pc # "done" /\ pc' = "done" /\ outcome'.err = "AuthenticationError"

\* an operation that ends on such a rejection has sent no data request at all
\* (it has, when the token expired between two of its requests: the rejection
\* stops the requests that would follow, not the ones already sent)
C9_RejectionSendsNothing ==
  (pc = "done" /\ outcome.err = "AuthenticationError") => log = <<>>

\* what holds of the answers raise_for_status does raise on: the cache is as
\* it was before that getToken call (untouched when it was the attempt's only
\* exchange, the grant of the attempt's first exchange when it was the
\* second); the operation sends no further data request; and the next
\* operation's first attempt exchanges afresh.
C9_RejectedExchange ==
  /\ [][C9_Rejection =>
          /\ log' = log /\ requests' = requests
          /\ posts' \in {1, 2}
          /\ posts' = 1 => (token' = token /\ token_expiry' = token_expiry)
          /\ posts' = 2 => (/\ token' = issued' /\ issued' # issued
                            /\ granted'.at = now
                            /\ token_expiry' = Some(now + (IF granted'.expires_in = None
                                                            THEN 3600
                                                            ELSE granted'.expires_in[1]) - 300))]_vars
  /\ []((pc = "done" /\ outcome.err = "AuthenticationError") =>
          ~(token # 0 /\ now < token_expiry[1]))
  /\ []((rejected /\ pc \in {"send", "done"} /\ log = <<>>) => posts >= 1)

\* after a rejection that left an expired token in the cache, the next
\* operation has exchanged afresh and is about to send
C9_Witness ==
  /\ rejected /\ pc = "send" /\ log = <<>>
  /\ posts = 1 /\ token = 2

\* ---------------------------------------------------------------- C10
\* C10: one Session object and one client per process: neither is built a
\* second time or replaced, and every request goes through that session,
\* token rotations included.
C10_SessionBuiltOnce ==
  /\ sessionsMade <= 1 /\ clientsMade <= 1
  /\ session \in {0, 1} /\ client \in {0, 1}
  /\ session = sessionsMade
  /\ \A i \in 1..Len(log) : log[i].session = 1 /\ session = 1 /\ client = 1
  /\ pc # "idle" => client = 1

\* two requests of one operation under different tokens, same session
C10_Witness ==
  /\ Len(log) >= 2
  /\ log[1].headers.Authorization # log[2].headers.Authorization
  /\ log[1].session = log[2].session
  /\ session = 1 /\ sessionsMade = 1 /\ clientsMade = 1

\* ---------------------------------------------------------------- C11
\* C11: the client only reads from the data service: every request that
\* query, query_single, aggregate and get_count put on the wire uses the GET
\* method and goes to a data URL; the token exchanges (counted in posts) are
\* the only other requests, and they are not data requests.
C11_DataRequestsAreGet ==
  /\ \A i \in 1..Len(log) :
       /\ log[i].method = "GET"
       /\ log[i].url[1] \in {BaseUrl, "link"}
  /\ op.kind \in {"query", "query_single", "aggregate", "get_count"} => op.method = "GET"
  /\ posts > 0 => Cloud
  /\ Len(log) <= requests

\* a count was read with one GET after one token POST
C11_Witness ==
  /\ pc = "done" /\ op.kind = "get_count" /\ outcome.number = Some(42)
  /\ Len(log) = 1 /\ log[1].method = "GET" /\ log[1].url = CountUrl("Sessions")
  /\ posts = 1

\* the same for an aggregation
C11_WitnessAggregate ==
  /\ pc = "done" /\ op.kind = "aggregate" /\ outcome.kind = "ok"
  /\ Len(log) = 1 /\ log[1].method = "GET" /\ log[1].params.apply # None

\* ---------------------------------------------------------------- C12
\* a call whose name no module registers, past its handler
C12_UnknownHandled == call.name \notin ListTools /\ call.stage \notin {"none", "routed"}

\* a call of such a name is being handled
C12_Unknown == call.name \notin ListTools /\ call.stage # "none"

\* C12: a call of a name no module registers, whichever prefix the name has,
\* is answered by the one payload {"error": "Unknown tool: <name>"}; the error
\* does not leave call_tool; the handler calls no client method, and while the
\* call is handled no session is built, no token is exchanged and no request
\* is sent upstream.
C12_UnknownToolAnswered ==
  /\ [](C12_UnknownHandled =>
          /\ call.stage \in {"raised", "returned"}
          /\ call.raised = Some("Unknown tool: " \o call.name)
          /\ call.method = "none" /\ call.queries = <<>>
          /\ pc = "idle" /\ log = <<>> /\ posts = 0
          /\ call.stage = "returned" =>
               call.payload = <<[type |-> "text",
                                 text |-> <<"json", <<"object",
                                   [error |-> "Unknown tool: " \o call.name]>>>>]>>)
  /\ [][C12_Unknown => UNCHANGED <<requests, log, posts, issued, sessionsMade>>]_vars

\* an unregistered name under the machine prefix has been answered, as the
\* first call of the process
C12_Witness ==
  /\ call.stage = "returned" /\ call.name = "citrix_machine_reboot"
  /\ call.handler = "machines" /\ client = 1 /\ requests = 0 /\ sessionsMade = 0
  /\ call.payload[1].text
       = <<"json", <<"object", [error |-> "Unknown tool: citrix_machine_reboot"]>>>>

\* the same for a name under no prefix, which the analytics module refuses,
\* after a call that reached the upstream
C12_WitnessNoPrefix ==
  /\ call.stage = "returned" /\ call.name = "machine_list" /\ call.handler = "analytics"
  /\ requests > 0
  /\ call.payload[1].text = <<"json", <<"object", [error |-> "Unknown tool: machine_list"]>>>>

\* ---------------------------------------------------------------- C13
\* C13: call_tool ends on exactly one text payload: the serialized result
\* when the handler returned, {"error": <message>} when the handler or the
\* client method under it raised; no error leaves call_tool, and a handler
\* that has returned or raised is always answered.
C13_OnePayload ==
  /\ call.stage # "escaped"
  /\ call.stage \in {"result", "raised"} => ENABLED Respond
  /\ call.stage # "returned" => call.payload = <<>>
  /\ call.stage = "returned" =>
       /\ Len(call.payload) = 1
       /\ call.payload[1].type = "text"
       /\ call.raised # None =>
            call.payload[1].text = <<"json", <<"object", [error |-> call.raised[1]]>>>>
       /\ call.raised = None =>
            /\ call.result # None
            /\ call.payload[1].text = <<"json", call.result[1]>>

\* the client ran out of retries under a registered tool and the call was
\* answered with the error payload
C13_Witness ==
  /\ call.stage = "returned" /\ call.name = "citrix_session_count"
  /\ call.method = "get_count"
  /\ call.payload
       = <<[type |-> "text", text |-> <<"json", <<"object", [error |-> "RateLimitExceeded"]>>>>]>>

\* an argument check failed and the call was answered with its message
C13_WitnessValidation ==
  /\ call.stage = "returned" /\ call.name = "citrix_aggregate" /\ call.method = "none"
  /\ call.payload[1].text
       = <<"json", <<"object", [error |-> "entity and apply are required"]>>>>

\* the handler returned an object whose one member is "error", as the
\* upstream sent it: the payload is the one an error of that message gives
C13_WitnessErrorObject ==
  /\ call.stage = "returned" /\ call.name = "citrix_machine_status"
  /\ call.raised = None /\ call.result = Some(ErrorDocument("ValueError"))
  /\ call.payload = <<TextContent(ErrorDocument("ValueError"))>>

\* a count was answered with the object built around it
C13_WitnessResult ==
  /\ call.stage = "returned" /\ call.name = "citrix_session_count"
  /\ call.payload[1].text = <<"json", <<"object", [count |-> 42]>>>>

\* ---------------------------------------------------------------- C14
\* C14: every name list_tools registers is routed to the module that
\* registered it, and that module's handler has a branch for it (it never
\* answers it with "Unknown tool"); the prefixes send no registered name to
\* another module.
C14_RegisteredToolsRouted ==
  (call.name \in ListTools /\ call.stage # "none") =>
       /\ call.name \in GetTools(call.handler)
       /\ call.raised # Some("Unknown tool: " \o call.name)
       /\ call.stage = "returned" =>
            call.payload[1].text
              # <<"json", <<"object", [error |-> "Unknown tool: " \o call.name]>>>>

\* the one registered name under the citrix_failure prefix reached the
\* connections handler and its client method
C14_Witness ==
  /\ call.stage = "returned" /\ call.name = "citrix_failure_summary"
  /\ call.handler = "connections" /\ call.method = "get_failure_summary"
  /\ call.raised = None

\* ---------------------------------------------------------------- C15
\* a citrix_machine_list call whose handler has called list_machines
C15_Listed == call.name = "citrix_machine_list" /\ call.stage \notin {"none", "routed"}

\* the four fragments in their fixed order, for the arguments picked by Given
C15_Fragments(a, Given(_)) ==
  LET custom == IF Given(a.filter) THEN <<a.filter[1]>> ELSE <<>>
      registration ==
        IF Given(a.registration_state)
        THEN <<"CurrentRegistrationState eq '" \o a.registration_state[1] \o "'">>
        ELSE <<>>
      power == IF Given(a.power_state)
               THEN <<"CurrentPowerState eq '" \o a.power_state[1] \o "'">> ELSE <<>>
      maintenance ==
        IF a.in_maintenance = None THEN <<>>
        ELSE IF a.in_maintenance[1] THEN <<"IsInMaintenanceMode eq true">>
        ELSE <<"IsInMaintenanceMode eq false">>
  IN custom \o registration \o power \o maintenance

\* the $filter of the request for these fragments: their ' and '-join, and no
\* parameter at all when there is none
C15_FilterOf(fragments) ==
  IF fragments = <<>> THEN None
  ELSE IF Len(fragments) = 1 THEN Some(fragments[1])
  ELSE IF Len(fragments) = 2 THEN Some(fragments[1] \o " and " \o fragments[2])
  ELSE IF Len(fragments) = 3
  THEN Some(fragments[1] \o " and " \o fragments[2] \o " and " \o fragments[3])
  ELSE Some(fragments[1] \o " and " \o fragments[2] \o " and " \o fragments[3]
            \o " and " \o fragments[4])

C15_Supplied(x) == x # None
C15_NonEmpty(x) == x # None /\ x[1] # ""

\* C15 as stated: the filter joins the fragment of every argument that was
\* supplied (present in the call), in the fixed order.
C15_FilterOfSuppliedArguments ==
  C15_Listed =>
    /\ call.query[1].url = <<"base", "Machines">>
    /\ call.query[1].params.filter
         = C15_FilterOf(C15_Fragments(call.arguments, C15_Supplied))

\* C15, amended: list_machines builds its filter as the ' and '-join of the
\* fragments of the arguments supplied with a non-empty value (in_maintenance:
\* supplied at all, false included), in the fixed order custom filter,
\* CurrentRegistrationState, CurrentPowerState, IsInMaintenanceMode; a string
\* argument supplied empty adds no fragment; with no fragment the request
\* carries no $filter, and it never carries another parameter.
C15_FilterOfNonEmptyArguments ==
  /\ C15_Listed =>
       /\ call.method = "list_machines"
       /\ call.query[1].url = <<"base", "Machines">>
       /\ call.query[1].params.filter
            = C15_FilterOf(C15_Fragments(call.arguments, C15_NonEmpty))
       /\ call.query[1].params = [NoParams EXCEPT !.filter = call.query[1].params.filter]
       /\ log # <<>> =>
            /\ log[1].url = call.query[1].url
            /\ log[1].params = call.query[1].params
  /\ (/\ C15_Listed
      /\ call.arguments = [NoArguments EXCEPT !.registration_state = Some("Registered"),
                                              !.power_state = Some("On")]) =>
       call.query[1].params.filter
         = Some("CurrentRegistrationState eq 'Registered' and CurrentPowerState eq 'On'")
  /\ (C15_Listed /\ call.arguments = NoArguments) => call.query[1].params = NoParams

\* all four arguments were given, the maintenance flag as false, and the
\* request has gone out
C15_Witness ==
  /\ C15_Listed /\ log # <<>>
  /\ call.arguments.in_maintenance = Some(FALSE)
  /\ call.query[1].params.filter
       = Some("Name eq 'x' and CurrentRegistrationState eq 'Registered' and "
              \o "CurrentPowerState eq 'On' and IsInMaintenanceMode eq false")

\* the example of the specification
C15_WitnessExample ==
  /\ C15_Listed
  /\ call.query[1].params.filter
       = Some("CurrentRegistrationState eq 'Registered' and CurrentPowerState eq 'On'")

\* ---------------------------------------------------------------- C16
\* the retry loop's states: Backoff is a 429 answer about to be slept on,
\* Succeeded any other answer, Exhausted the rate-limit error
C16_Backoff == pc = "response" /\ resp.status = 429
C16_Succeeded == pc = "response" /\ resp.status # 429
C16_Exhausted == pc = "done" /\ outcome.err = "RateLimitExceeded"

\* C16 as stated: every sleep after a 429 is followed by a return to
\* Attempting with the attempt count incremented.
C16_EverySleepReturnsToAttempting ==
  [][(C16_Backoff /\ pc' # pc) =>
       (pc' = "refresh" /\ op'.attempt = op.attempt + 1)]_vars

\* C16, amended: every 429 is slept on for 5 * (attempt + 1) s and the attempt
\* count is incremented; after the sleep the loop is back in Attempting when
\* fewer than maxRetries attempts were made, and in Exhausted, without another
\* attempt, when that 429 was the maxRetries-th; Exhausted is entered only so,
\* after maxRetries consecutive 429 and sleeps of 5, 10 and 15 s; Succeeded
\* and Exhausted are terminal: no attempt of that call follows them.
C16_RetryStateMachine ==
  /\ [][(C16_Backoff /\ pc' # pc) =>
          /\ op'.attempt = op.attempt + 1
          /\ slept' = Append(slept, 5 * (op.attempt + 1))
          /\ log' = log
          /\ op.attempt + 1 < 3 => (pc' = "refresh" /\ outcome' = outcome)
          /\ op.attempt + 1 >= 3 => (pc' = "done" /\ outcome'.err = "RateLimitExceeded")]_vars
  /\ [](C16_Exhausted =>
          /\ StatusesOf(CallLog) = <<429, 429, 429>>
          /\ slept = <<5, 10, 15>>
          /\ op.attempt = 3)
  /\ [][(pc' = "done" /\ outcome'.err = "RateLimitExceeded") =>
          (C16_Backoff \/ C16_Exhausted)]_vars
  /\ [][C16_Succeeded =>
          (pc' \in {"response", "done"} \/ (pc' = "refresh" /\ op'.page = op.page + 1
                                            /\ op'.attempt = 0 /\ slept' = <<>>))]_vars
  /\ [][C16_Exhausted => (log' \in {log, <<>>} /\ pc' \in {"done", "idle"})]_vars

\* the third 429 was slept on for 15 s and the loop gave up with no attempt
\* after that sleep
C16_Witness ==
  /\ C16_Exhausted
  /\ slept = <<5, 10, 15>>
  /\ Len(log) = 3

\* after the first 429 and its sleep the loop is back before an attempt
C16_WitnessAttempting ==
  /\ pc = "refresh" /\ op.attempt = 1 /\ slept = <<5>> /\ LastSent.status = 429

\* ---------------------------------------------------------------- C17
\* a data request goes out in cloud mode
C17_Sending == Cloud /\ pc = "send" /\ Len(log') = Len(log) + 1

\* C17: in cloud mode the refresh hook has run before every HTTP attempt
\* (first attempt, retry after a sleep, follow-up page), so every data request
\* goes out with Authorization = "CWSAuth bearer=" + the token cached at that
\* moment, and that token's stored expiry had not passed when the hook ran
\* (no time passes between the hook and the request it precedes).
C17_RequestsCarryCachedUnexpiredToken ==
  [][C17_Sending =>
       /\ token' # 0
       /\ log'[Len(log')].headers.Authorization = Some(<<"CWSAuth bearer=", token'>>)
       /\ token_expiry' # None
       /\ now < token_expiry'[1]]_vars

\* ---------------------------------------------------------------- C18
\* both callers found the token expired, exchanged, and have finished
C18_BothFinished ==
  \A t \in Threads :
    threads[t].at = "done" /\ threads[t].posts = 1 /\ threads[t].err = "none"

\* C18: of two concurrent callers that both find the cached token expired,
\* each makes at most one exchange, and once both have finished the cache
\* holds an unexpired token together with the expiry computed from the answer
\* that token came in.
C18_RaceLeavesConsistentCache ==
  /\ \A t \in DOMAIN threads : threads[t].posts <= 1
  /\ (threads # <<>> /\ C18_BothFinished) =>
       /\ \E t \in Threads :
            /\ token = threads[t].access_token
            /\ token_expiry = threads[t].expiry
       /\ now < token_expiry[1]

\* the two exchanges were answered with tokens of the default lifetime
C18_DefaultLifetimes == \A t \in Threads : threads[t].expires_in = None

\* the same, for tokens of the default lifetime only
C18_RaceWithDefaultLifetimes ==
  (threads # <<>> /\ C18_BothFinished /\ C18_DefaultLifetimes) =>
    \E t \in Threads :
      token = threads[t].access_token /\ token_expiry = threads[t].expiry

\* ---------------------------------------------------------------- C19
\* query has a 2xx page in hand whose body has no "value"
C19_PageWithoutValue ==
  /\ pc = "response" /\ op.kind = "query"
  /\ resp.status >= 200 /\ resp.status < 300
  /\ resp.body.value = None

\* C19: a 2xx page without "value" adds no record and raises nothing: the
\* records of the earlier pages are kept, and query goes on to the page's
\* link when it has one and returns what it has collected otherwise.
C19_PageWithoutValueIsEmpty ==
  [][(C19_PageWithoutValue /\ pc' # pc) =>
       /\ op'.results = op.results
       /\ outcome'.kind # "error"
       /\ resp.body.next \notin {None, Some(<<>>)} =>
            /\ pc' = "refresh"
            /\ op'.url = resp.body.next /\ op'.page = op.page + 1
       /\ resp.body.next \in {None, Some(<<>>)} =>
            /\ pc' = "done"
            /\ outcome' = [NoOutcome EXCEPT !.kind = "ok", !.list = op.results]]_vars

\* a three-page query whose middle page had no "value" returned the records
\* of the first and the last page
C19_Witness ==
  /\ pc = "done" /\ op.kind = "query" /\ outcome.kind = "ok"
  /\ Len(log) = 3
  /\ log[2].status = 200 /\ log[2].body.value = None
  /\ outcome.list = Records(0) \o Records(2)

\* a query whose last page had no "value" returned the records before it
C19_WitnessLastPage ==
  /\ pc = "done" /\ op.kind = "query" /\ outcome.kind = "ok"
  /\ Len(log) = 2
  /\ log[2].status = 200 /\ log[2].body.value = None /\ log[2].body.next = None
  /\ outcome.list = Records(0)

\* ---------------------------------------------------------------- C20
\* a page of a running query ends: on a final response that is not 2xx, on
\* the sleep after the last 429 of an exhausted call, or (below) on a
\* transport failure of the request itself
C20_PageFails ==
  /\ op.kind = "query" /\ pc = "response"
  /\ \/ resp.status # 429 /\ ~(resp.status >= 200 /\ resp.status < 300)
     \/ resp.status = 429 /\ op.attempt + 1 >= 3

\* C20: a query stops at the first page that fails. A page that ends in a
\* non-2xx response, in rate-limit exhaustion or in a transport failure makes
\* query raise at that page: no request follows, and the records of the pages
\* fetched before are not returned.
C20_QueryStopsAtFirstError ==
  /\ [][(C20_PageFails /\ pc' # pc) =>
          (pc' = "done" /\ outcome'.kind = "error" /\ outcome'.list = <<>>
           /\ log' = log)]_vars
  /\ [][(op.kind = "query" /\ pc = "send" /\ Len(log') > Len(log)
         /\ log'[Len(log')].status = 0) =>
          (pc' = "done" /\ outcome'.kind = "error" /\ outcome'.list = <<>>)]_vars
  /\ [][(op.kind = "query" /\ pc = "done" /\ outcome.kind = "error") =>
          (log' \in {log, <<>>} /\ requests' = requests)]_vars

\* the same with the pages that end in a 3xx response left aside
C20_QueryStopsAtFirstClientOrServerError ==
  [][(C20_PageFails /\ resp.status \notin 300..399 /\ pc' # pc) =>
       (pc' = "done" /\ outcome'.kind = "error" /\ outcome'.list = <<>>
        /\ log' = log)]_vars

\* ---------------------------------------------------------------- C21
\* query has got a page it decodes: a response that is neither a 429 nor
\* raised on
C21_Decoded ==
  pc = "response" /\ op.kind = "query" /\ ~RateLimited(resp) /\ ~RaiseForStatus(resp.status)
\* the page carries no next-page link, or an empty one
C21_NoLink(body) == body.next = None \/ body.next = Some(<<>>)
C21_Running == op.kind = "query" /\ pc \in {"refresh", "send", "response"}

\* C21: over a finite chain of next-page links, with every request answered,
\* a started query comes to its end; it returns exactly on a decoded page that
\* carries no (or an empty) next-page link, and on every other decoded page,
\* whatever its number, it goes on to request the page the link names.
C21_QueryTerminates ==
  /\ [][C21_Decoded /\ C21_NoLink(resp.body)
          => pc' = "done" /\ outcome'.kind = "ok"]_vars
  /\ [][C21_Decoded /\ ~C21_NoLink(resp.body)
          => pc' = "refresh" /\ op'.url = resp.body.next /\ op'.page = op.page + 1]_vars
  /\ [][C21_Running /\ pc' = "done" /\ outcome'.kind = "ok"
          => C21_Decoded /\ C21_NoLink(resp.body)]_vars
  /\ (C21_Running ~> pc = "done")

\* a query has returned after following the chain to its last page, with 429
\* answers retried on the way
C21_Witness ==
  /\ pc = "done" /\ op.kind = "query" /\ outcome.kind = "ok"
  /\ op.page = ChainLength
  /\ \E i \in 1..Len(log) : log[i].status = 429

\* a query has returned on a page whose link is the empty string
C21_WitnessEmptyLink ==
  /\ pc = "done" /\ op.kind = "query" /\ outcome.kind = "ok"
  /\ LastSent.body.next = Some(<<>>)

\* ---------------------------------------------------------------- C22
\* query() has been called by citrix_query_raw with the call's options
C22_Queried ==
  /\ call.name = "citrix_query_raw"
  /\ call.stage \in {"client", "running"}
C22_Options == QueryRawOptions(call.arguments)
C22_Params == call.query[1].params

\* C22: the first request of query carries $top with the given value whenever
\* top is given and $skip whenever skip is given (0 included), $select and
\* $expand as the comma-joins of the lists given, $count=true iff count is
\* requested, and no parameter for an option that is not given.
C22_EveryOptionMapped ==
  C22_Queried =>
    /\ C22_Options.top # None => C22_Params.top = C22_Options.top
    /\ C22_Options.skip # None => C22_Params.skip = C22_Options.skip
    /\ C22_Options.select # None => C22_Params.select = Some(Join(C22_Options.select[1]))
    /\ C22_Options.expand # None => C22_Params.expand = Some(Join(C22_Options.expand[1]))
    /\ C22_Params.count = Some("true") <=> C22_Options.count
    /\ log # <<>> => (log[1].url = EntityUrl("Machines") /\ log[1].params = C22_Params)
    /\ \A k \in {"filter", "select", "orderby", "top", "skip", "expand"} :
         C22_Options[k] = None => C22_Params[k] = None

\* the same for top values other than 0 and select lists that are not empty
C22_NonZeroOptionsMapped ==
  C22_Queried =>
    /\ TruthyInt(C22_Options.top) => C22_Params.top = C22_Options.top
    /\ ~TruthyInt(C22_Options.top) => C22_Params.top = None
    /\ TruthyInt(C22_Options.skip) => C22_Params.skip = C22_Options.skip
    /\ TruthySeq(C22_Options.select) =>
         C22_Params.select = Some(Join(C22_Options.select[1]))
    /\ ~TruthySeq(C22_Options.select) => C22_Params.select = None
    /\ C22_Options.expand # None => C22_Params.expand = Some(Join(C22_Options.expand[1]))
    /\ C22_Params.count = Some("true") <=> C22_Options.count
    /\ log # <<>> => (log[1].url = EntityUrl("Machines") /\ log[1].params = C22_Params)
    /\ \A k \in {"filter", "select", "orderby", "top", "skip", "expand"} :
         C22_Options[k] = None => C22_Params[k] = None

\* ---------------------------------------------------------------- C23
\* the requests the running query sent for page p, and those sent for the
\* page of request i before it
C23_OnPage(p) == SelectSeq(log, LAMBDA e : e.page = p)
C23_Earlier(i) == {j \in 1..(i - 1) : log[j].page = log[i].page}
C23_Pages == {log[i].page : i \in 1..Len(log)}

\* C23: the retry budget is per page request. Every request of a query is
\* sent with an attempt number that counts the 429 answers to the same page
\* only; the sleeps of a page's retry loop start again from 5 s; while a page
\* is being requested fewer than maxRetries attempts have been used on it,
\* and the query is exhausted only by maxRetries 429 answers to one page.
C23_RetryBudgetPerRequest ==
  op.kind = "query" =>
    /\ \A i \in 1..Len(log) :
         /\ log[i].attempt = Cardinality(C23_Earlier(i))
         /\ \A j \in C23_Earlier(i) : log[j].status = 429
    /\ pc \in {"refresh", "send"} =>
         /\ op.attempt < MaxRetries
         /\ op.attempt = Len(C23_OnPage(op.page))
         /\ slept = [i \in 1..op.attempt |-> BackoffStep * i]
    /\ (pc = "done" /\ outcome.err = "RateLimitExceeded") =>
         /\ Len(C23_OnPage(op.page)) = MaxRetries
         /\ \A i \in 1..Len(log) : log[i].page = op.page => log[i].status = 429
    /\ \A p \in C23_Pages : Len(C23_OnPage(p)) <= MaxRetries

\* a query over two pages has returned although each page was answered 429
\* maxRetries - 1 times: more 429 answers than one budget holds
C23_Witness ==
  /\ pc = "done" /\ op.kind = "query" /\ outcome.kind = "ok"
  /\ StatusesOf(log) = <<429, 429, 200, 429, 429, 200>>
  /\ [i \in 1..Len(log) |-> log[i].attempt] = <<0, 1, 2, 0, 1, 2>>

\* a query is exhausted on its second page, after a 429 on the first
C23_WitnessExhaustedLater ==
  /\ pc = "done" /\ op.kind = "query" /\ outcome.err = "RateLimitExceeded"
  /\ StatusesOf(log) = <<429, 200, 429, 429, 429>>
  /\ slept = <<5, 10, 15>>

\* ---------------------------------------------------------------- C24
\* a machine-scoped helper was given a name and no machine id, its lookup
\* found no machine of that name, and the helper has gone on from there
C24_Unresolved ==
  /\ call.method \in {"get_machine_metrics", "get_machine_failures", "get_load_indexes"}
  /\ call.arguments.machine_id = None
  /\ call.lookup = "unmatched"
  /\ call.stage \in {"running", "result", "raised", "returned"}
C24_ScopedEntities ==
  {EntityUrl("ResourceUtilization"), EntityUrl("MachineFailureLogs"), EntityUrl("LoadIndexes")}
C24_Unfiltered(q) == q.url \in C24_ScopedEntities /\ q.params.filter = None

\* C24: with a machine name that matches no machine and no machine id,
\* get_machine_metrics, get_machine_failures and get_load_indexes return an
\* empty result and make no unfiltered query of ResourceUtilization,
\* MachineFailureLogs or LoadIndexes: no such query is entered, none goes out,
\* and the lookup stays the only query made.
C24_UnresolvedNameGivesNothing ==
  C24_Unresolved =>
    /\ \A i \in 1..Len(call.queries) : ~C24_Unfiltered(call.queries[i])
    /\ \A i \in 1..Len(log) : ~C24_Unfiltered(log[i])
    /\ call.queries = <<GetMachineByName(ScopedName(call.method, call.arguments)[1])>>
    /\ call.stage \in {"result", "returned"}
    /\ call.raised = None /\ call.result = Some(Array(<<>>))

\* the same for get_machine_metrics and get_machine_failures alone
C24_MetricsAndFailuresGiveNothing ==
  call.method # "get_load_indexes" => C24_UnresolvedNameGivesNothing

\* get_machine_metrics returned the empty list after a lookup that matched
\* nothing
C24_WitnessMetrics ==
  /\ C24_Unresolved /\ call.method = "get_machine_metrics" /\ call.stage = "returned"
  /\ call.payload = <<TextContent(Array(<<>>))>>

\* get_load_indexes sent the query without $filter after such a lookup, and
\* answered with the records of that query
C24_WitnessLoadIndexes ==
  /\ C24_Unresolved /\ call.method = "get_load_indexes" /\ call.stage = "returned"
  /\ call.queries[2].url = EntityUrl("LoadIndexes") /\ call.queries[2].params.filter = None
  /\ call.payload = <<TextContent(Array(Records(0)))>>

====
